---- MODULE Spec2Model ----
(***************************************************************************)
(* Colombian-law-mcp ingestion pipeline: the document parser               *)
(* (scripts/lib/parser.ts), the rate-limited fetcher (scripts/lib/fetcher) *)
(* and the ingestion orchestrator (scripts/ingest.ts).                     *)
(*                                                                         *)
(* Text is a sequence of tokens.  A token is one UTF-16 unit written as a  *)
(* one-character string, or one of the named units below, or (in raw HTML  *)
(* only) a whole tag or a whole character reference:                       *)
(*   "i_ac" "I_ac" "o_ac" "O_ac"  the letters i, I, o, O with acute accent *)
(*   "deg" "ordm"                 the degree sign and the ordinal sign     *)
(*   "LF" "CR" "TAB" "NBSP"       line feed, carriage return, tab, U+00A0  *)
(*   "hs" "ls"                    a high and a low surrogate unit          *)
(***************************************************************************)
EXTENDS Integers, Sequences, FiniteSets, TLC

(***************************************************************************)
(* State.                                                                  *)
(***************************************************************************)
VARIABLES
  doc,      \* parser: the raw HTML handed to parseNormaHtml
  ppc,      \* parser: "idle", "start", "segment", "done" or "threw"
  paras,    \* parser: the paragraphs extractParagraphs returned
  rest,     \* parser: the paragraphs the for loop has not visited yet
  seg,      \* parser: currentChapter, active and provisions of the pass
  parsed,   \* parser: what parseNormaHtml returned or threw
  definitions,   \* parser: the array definitions of extractDefinitions, unsliced
  dynamic,  \* buildDynamicTargetLaws: entries, usedIds and laws
  args,     \* CliArgs: limit, start, skipFetch, fullLaws, append
  env,      \* process.env.ALLOW_INSECURE_TLS
  pc,       \* where main() stands
  laws,     \* lawBuild.laws
  pending,  \* runIngestionWithRetries: pending
  round,    \* runIngestionWithRetries: round
  idx,      \* runIngestionWithRetries: i
  roundResults,  \* runIngestionWithRetries: roundResults
  allResults,    \* runIngestionWithRetries: allResults, law id -> IngestResult
  result,   \* the IngestResult ingestLaw returned last
  results,  \* main: results
  exitCode, \* process.exitCode, or the code of process.exit
  caller,   \* who awaits fetchWithRateLimit: "law" or "index"
  attempt,  \* fetchWithRateLimit: attempt
  now,      \* Date.now(), in ms since the process started
  lastRequestTime,         \* fetcher.ts module state
  insecureTlsNoticeShown,  \* fetcher.ts module state
  tlsRejectOff,  \* process.env.NODE_TLS_REJECT_UNAUTHORIZED === '0'
  warnings, \* how many times the insecure-mode warning was logged
  sourceDir,     \* SOURCE_DIR: file name -> the page it holds
  seedDir,  \* SEED_DIR: file name -> what it holds
  history,  \* log: round, law id and status of every ingestLaw call
  thrown,   \* log: the message of the exception raised in the current ingestLaw call
  reqLog,   \* log: the outbound requests (count, count for documents, url, limiter stamps)
  responses,     \* log: the outcomes of the requests of the current fetch call
  backoffs, \* log: the backoff waits of the current fetch call
  slow,     \* how many slow responses so far
  faults    \* how many failing responses and writes so far

parserVars == <<doc, ppc, paras, rest, seg, parsed, definitions>>

fetchVars == <<caller, attempt, now, lastRequestTime, insecureTlsNoticeShown,
               tlsRejectOff, warnings, reqLog, responses, backoffs, slow>>

loopVars == <<laws, pending, round, idx, roundResults, allResults, result, results,
              exitCode, history, thrown>>

dirVars == <<sourceDir, seedDir>>

runVars == <<args, env, pc, laws, pending, round, idx, roundResults, allResults, result,
             results, exitCode, caller, attempt, now, lastRequestTime,
             insecureTlsNoticeShown, tlsRejectOff, warnings, sourceDir, seedDir, history,
             thrown, reqLog, responses, backoffs, slow, faults>>

vars == <<doc, ppc, paras, rest, seg, parsed, definitions, dynamic, args, env, pc, laws, pending, round, idx,
          roundResults, allResults, result, results, exitCode, caller, attempt, now,
          lastRequestTime, insecureTlsNoticeShown, tlsRejectOff, warnings, sourceDir,
          seedDir, history, thrown, reqLog, responses, backoffs, slow, faults>>

(***************************************************************************)
(* Bounds of the model.                                                    *)
(***************************************************************************)
\* paragraphs per generated document
MaxParas == 3

\* entries of TARGET_LAWS a run works on
MaxLaws == 2

\* responses slower than the pacing interval, per run
MaxSlow == 1

\* failing responses (a status other than 200, or a transport failure) and
\* failing file writes, per run
MaxFaults == 4

(***************************************************************************)
(* Characters.                                                             *)
(***************************************************************************)
Digits == {"0", "1", "2", "3", "4", "5", "6", "7", "8", "9"}

LowerSeq ==
  <<"a", "b", "c", "d", "e", "f", "g", "h", "i", "j", "k", "l", "m",
    "n", "o", "p", "q", "r", "s", "t", "u", "v", "w", "x", "y", "z">>

UpperSeq ==
  <<"A", "B", "C", "D", "E", "F", "G", "H", "I", "J", "K", "L", "M",
    "N", "O", "P", "Q", "R", "S", "T", "U", "V", "W", "X", "Y", "Z">>

LowerLetters == {LowerSeq[i] : i \in 1..26}

UpperLetters == {UpperSeq[i] : i \in 1..26}

AsciiLetters == LowerLetters \cup UpperLetters

\* the class \s of a JavaScript regular expression, over the units of the model
Spaces == {" ", "LF", "CR", "TAB", "NBSP"}

\* the units the "." of a regular expression does not match
LineTerminators == {"LF", "CR"}

\* String.prototype.toLowerCase on one unit
ToLowerChar(c) ==
  IF c \in UpperLetters THEN LowerSeq[CHOOSE i \in 1..26 : UpperSeq[i] = c]
  ELSE IF c = "I_ac" THEN "i_ac"
  ELSE IF c = "O_ac" THEN "o_ac"
  ELSE c

ToLowerCase(s) == [i \in 1..Len(s) |-> ToLowerChar(s[i])]

MinOf(S) == CHOOSE m \in S : \A n \in S : m <= n

MaxOf(S) == CHOOSE m \in S : \A n \in S : m >= n

\* the first index >= i of s whose unit is not in class (Len(s)+1 when none):
\* what a greedy class* consumes from i
SkipSet(s, i, class) ==
  MinOf({j \in i..Len(s) : s[j] \notin class} \cup {MaxOf({i, Len(s) + 1})})

\* the concatenation of the sequences of ss
RECURSIVE Flatten(_)
Flatten(ss) ==
  IF ss = <<>> THEN <<>>
  ELSE IF Len(ss) = 1 THEN ss[1]
  ELSE LET half == Len(ss) \div 2
       IN  Flatten(SubSeq(ss, 1, half)) \o Flatten(SubSeq(ss, half + 1, Len(ss)))

\* the units of s at the indexes keep, in order
PickSeq(s, keep) == Flatten([i \in 1..Len(s) |-> IF i \in keep THEN <<s[i]>> ELSE <<>>])

At(s, i) == IF i >= 1 /\ i <= Len(s) THEN s[i] ELSE "EOF"

Tail2(s, i) == IF i > Len(s) THEN <<>> ELSE SubSeq(s, i, Len(s))

(***************************************************************************)
(* Exceptions.  A computation that may throw returns a record              *)
(* [threw, msg, val]: threw = TRUE with the Error's message, or            *)
(* threw = FALSE with the value.                                           *)
(***************************************************************************)
Throw(m) == [threw |-> TRUE, msg |-> m, val |-> <<>>]

Return(v) == [threw |-> FALSE, msg |-> "", val |-> v]

(***************************************************************************)
(* parser.ts: text helpers.                                                *)
(***************************************************************************)
RemoveAll(s, class) == PickSeq(s, {i \in 1..Len(s) : s[i] \notin class})

\* replace(/[ \t]+/g, ' '): every run of spaces and tabs becomes one space
CollapseBlanks(s) ==
  LET blank(i) == s[i] \in {" ", "TAB"}
  IN  Flatten([i \in 1..Len(s) |->
                 IF ~blank(i) THEN <<s[i]>>
                 ELSE IF i = 1 \/ ~blank(i - 1) THEN <<" ">>
                 ELSE <<>>])

\* replace(/\n{3,}/g, '\n\n'): a run of three or more line feeds becomes two
CollapseLines(s) ==
  PickSeq(s, {i \in 1..Len(s) :
                ~(i >= 3 /\ s[i] = "LF" /\ s[i - 1] = "LF" /\ s[i - 2] = "LF")})

\* the last index <= i of s whose unit is not in class (0 when none)
SkipSetBack(s, i, class) == MaxOf({j \in 1..i : s[j] \notin class} \cup {0})

\* String.prototype.trim
Trim(s) ==
  LET a == SkipSet(s, 1, Spaces)
      b == SkipSetBack(s, Len(s), Spaces)
  IN  IF a > b THEN <<>> ELSE SubSeq(s, a, b)

normalizeWhitespace(text) ==
  LET s1 == [i \in 1..Len(text) |-> IF text[i] = "NBSP" THEN " " ELSE text[i]]
      s2 == RemoveAll(s1, {"CR"})
      s3 == CollapseBlanks(s2)
      s4 == CollapseLines(s3)
  IN  Trim(s4)

\* the tags of the HTML of the model: each is one token of the raw text
ContainerOpen == "<div class=descripcion-contenido>"

DivOpenTags == {ContainerOpen, "<div>"}

DivCloseTags == {"</div>"}

ParaOpenTags == {"<p>"}

ParaCloseTags == {"</p>"}

Tags == DivOpenTags \cup DivCloseTags \cup ParaOpenTags \cup ParaCloseTags \cup {"<br>"}

\* replace(/<[^>]+>/g, ' ')
stripTags(html) == [i \in 1..Len(html) |-> IF html[i] \in Tags THEN " " ELSE html[i]]

\* the largest code point String.fromCodePoint accepts (0x10FFFF)
MaxCodePoint == 1114111

\* the numeric character references of the model, &#<dec>; and &#x<hex>;,
\* with the number Number(dec) or Number.parseInt(hex, 16) reads from each
DecimalRefs == {"&#65;", "&#186;", "&#1114111;", "&#1114112;"}

HexRefs == {"&#x41;", "&#x110000;"}

RefNumber(tok) ==
  CASE tok = "&#65;" -> 65
    [] tok = "&#186;" -> 186
    [] tok = "&#1114111;" -> 1114111
    [] tok = "&#1114112;" -> 1114112
    [] tok = "&#x41;" -> 65
    [] tok = "&#x110000;" -> 1114112

\* String.fromCodePoint(num): a RangeError above 0x10FFFF, two units (a
\* surrogate pair) above 0xFFFF, else one unit
fromCodePoint(num) ==
  IF num > MaxCodePoint THEN Throw("Invalid code point")
  ELSE IF num > 65535 THEN Return(<<"hs", "ls">>)
  ELSE IF num = 65 THEN Return(<<"A">>)
  ELSE IF num = 186 THEN Return(<<"ordm">>)
  ELSE Return(<<"?">>)

\* the table `named` of decodeHtmlEntities, for the references of the model;
\* a name that is not in the table stays as written
NamedRefs == {"&iacute;", "&ordm;", "&nbsp;", "&amp;", "&foo;"}

NamedDecode(tok) ==
  CASE tok = "&iacute;" -> <<"i_ac">>
    [] tok = "&ordm;" -> <<"ordm">>
    [] tok = "&nbsp;" -> <<" ">>
    [] tok = "&amp;" -> <<"&">>
    [] tok = "&foo;" -> <<"&", "f", "o", "o", ";">>

\* one token through the three replace passes of decodeHtmlEntities
DecodeToken(tok) ==
  IF tok \in DecimalRefs \cup HexRefs THEN fromCodePoint(RefNumber(tok))
  ELSE IF tok \in NamedRefs THEN Return(NamedDecode(tok))
  ELSE Return(<<tok>>)

decodeHtmlEntities(text) ==
  LET bad == {i \in 1..Len(text) : DecodeToken(text[i]).threw}
  IN  IF bad # {} THEN Throw(DecodeToken(text[MinOf(bad)]).msg)
      ELSE Return(Flatten([i \in 1..Len(text) |-> DecodeToken(text[i]).val]))

\* the first index >= i of s whose token is in class (Len(s)+1 when none)
FindSet(s, i, class) ==
  MinOf({j \in i..Len(s) : s[j] \in class} \cup {MaxOf({i, Len(s) + 1})})

\* the value of depth in the loop of extractClassBlock after the div tags
\* of html[i..j], starting from depth d
DepthAfter(html, i, j, d) ==
  d + Cardinality({k \in i..j : html[k] \in DivOpenTags})
    - Cardinality({k \in i..j : html[k] \in DivCloseTags})

\* the loop of extractClassBlock over the div tags from index i: the index of
\* the first closing tag at which depth is 0, or 0 when the text ends first
ScanDivTags(html, i, depth) ==
  LET closes == {j \in i..Len(html) :
                   html[j] \in DivCloseTags /\ DepthAfter(html, i, j, depth) = 0}
  IN  IF closes = {} THEN 0 ELSE MinOf(closes)

\* a faulty variant: the block ends at the first closing div tag
extractClassBlockFirstClose(html) ==
  LET start == FindSet(html, 1, {ContainerOpen})
      close == FindSet(html, start + 1, DivCloseTags)
  IN  IF start > Len(html) THEN [isNull |-> TRUE, val |-> <<>>]
      ELSE IF close > Len(html) THEN [isNull |-> TRUE, val |-> <<>>]
      ELSE [isNull |-> FALSE,
            val |-> IF close = start + 1 THEN <<>> ELSE SubSeq(html, start + 1, close - 1)]

\* extractClassBlock(html, 'descripcion-contenido'): isNull, or the inner HTML
extractClassBlock(html) ==
  LET start == FindSet(html, 1, {ContainerOpen})
      close == ScanDivTags(html, start + 1, 1)
  IN  IF start > Len(html) THEN [isNull |-> TRUE, val |-> <<>>]
      ELSE IF close = 0 THEN [isNull |-> TRUE, val |-> <<>>]
      ELSE [isNull |-> FALSE,
            val |-> IF close = start + 1 THEN <<>> ELSE SubSeq(html, start + 1, close - 1)]

\* the matches of /<p\b[^>]*>[\s\S]*?<\/p>/gi in h from index i, in order
RECURSIVE ParagraphMatches(_, _)
ParagraphMatches(h, i) ==
  LET o == FindSet(h, i, ParaOpenTags)
      c == FindSet(h, o + 1, ParaCloseTags)
  IN  IF o > Len(h) \/ c > Len(h) THEN <<>>
      ELSE <<SubSeq(h, o, c)>> \o ParagraphMatches(h, c + 1)

\* the map and the filter(Boolean) of extractParagraphs over the matches
RECURSIVE DecodeParagraphs(_)
DecodeParagraphs(matches) ==
  IF matches = <<>> THEN Return(<<>>)
  ELSE LET decoded == decodeHtmlEntities(stripTags(Head(matches)))
           others == DecodeParagraphs(Tail(matches))
       IN  IF decoded.threw THEN decoded
           ELSE IF others.threw THEN others
           ELSE LET para == normalizeWhitespace(decoded.val)
                IN  Return((IF para = <<>> THEN <<>> ELSE <<para>>) \o others.val)

extractParagraphs(contentHtml) == DecodeParagraphs(ParagraphMatches(contentHtml, 1))

\* replace(/[°º]/g, '').replace(/\s+/g, '').replace(/\.$/, '')
normalizeSection(section) ==
  LET s == RemoveAll(section, {"deg", "ordm"} \cup Spaces)
  IN  IF s # <<>> /\ s[Len(s)] = "." THEN SubSeq(s, 1, Len(s) - 1) ELSE s

\* replace(/[^0-9a-z]+/g, '-'): every run of other units becomes one '-'
RECURSIVE SlugRuns(_)
SlugRuns(s) ==
  IF s = <<>> THEN <<>>
  ELSE IF Head(s) \in Digits \cup LowerLetters THEN <<Head(s)>> \o SlugRuns(Tail(s))
  ELSE <<"-">> \o SlugRuns(Tail2(s, FindSet(s, 1, Digits \cup LowerLetters)))

\* a faulty variant: the section is not lower-cased first
toProvisionRefNoLowerCase(section) == <<"a", "r", "t">> \o SlugRuns(section)

toProvisionRef(section) == <<"a", "r", "t">> \o SlugRuns(ToLowerCase(section))

(***************************************************************************)
(* parser.ts: the two paragraph patterns.                                  *)
(***************************************************************************)
HasPrefixAt(s, i, pre) ==
  /\ Len(s) >= i + Len(pre) - 1
  /\ \A k \in 1..Len(pre) : s[i + k - 1] = pre[k]

\* (?:ART[IÍ]CULO|Art[ií]culo) at the start of p
ArticleKeyword(p) ==
  \/ /\ HasPrefixAt(p, 1, <<"A", "R", "T">>)
     /\ At(p, 4) \in {"I", "I_ac"}
     /\ HasPrefixAt(p, 5, <<"C", "U", "L", "O">>)
  \/ /\ HasPrefixAt(p, 1, <<"A", "r", "t">>)
     /\ At(p, 4) \in {"i", "i_ac"}
     /\ HasPrefixAt(p, 5, <<"c", "u", "l", "o">>)

\* (?:\.[0-9]+)* from index k: the index after the last group
RECURSIVE DottedGroups(_, _)
DottedGroups(p, k) ==
  IF At(p, k) = "." /\ At(p, k + 1) \in Digits
  THEN DottedGroups(p, SkipSet(p, k + 1, Digits))
  ELSE k

\* paragraph.match(ARTICLE_RE): whether it matches, and capture group 1.
\* Every quantifier is greedy and what follows group 1 matches any rest
\* without a line terminator, so the first (greedy) parse decides the match.
ArticleMatch(p) ==
  LET a == SkipSet(p, 9, Spaces)
      b == SkipSet(p, a, Digits)
      c == DottedGroups(p, b)
      d == IF At(p, c) = "-" /\ At(p, c + 1) \in Digits
           THEN SkipSet(p, c + 1, Digits) ELSE c
      e == IF At(p, d) \in AsciiLetters THEN d + 1 ELSE d
      f0 == SkipSet(p, e, Spaces)
      f == IF At(p, f0) \in {"deg", "ordm"} THEN f0 + 1 ELSE e
      g == IF At(p, f) = "." THEN f + 1 ELSE f
      h == SkipSet(p, g, Spaces)
      ok == /\ ArticleKeyword(p)
            /\ a > 9
            /\ b > a
            /\ \A k \in h..Len(p) : p[k] \notin LineTerminators
  IN  [matched |-> ok, group1 |-> IF ok THEN SubSeq(p, a, e - 1) ELSE <<>>]

\* CHAPTER_RE.test(paragraph); the pattern has the i flag and no end anchor
ChapterTest(p) ==
  LET q == ToLowerCase(p)
      kw == IF /\ HasPrefixAt(q, 1, <<"c", "a", "p">>)
               /\ At(q, 4) \in {"i", "i_ac"}
               /\ HasPrefixAt(q, 5, <<"t", "u", "l", "o">>) THEN 8
            ELSE IF /\ HasPrefixAt(q, 1, <<"t">>)
                    /\ At(q, 2) \in {"i", "i_ac"}
                    /\ HasPrefixAt(q, 3, <<"t", "u", "l", "o">>) THEN 6
            ELSE IF /\ HasPrefixAt(q, 1, <<"s", "e", "c", "c", "i">>)
                    /\ At(q, 6) \in {"o", "o_ac"}
                    /\ At(q, 7) = "n" THEN 7
            ELSE 0
      a == SkipSet(q, kw + 1, Spaces)
  IN  /\ kw > 0
      /\ a > kw + 1
      /\ At(q, a) \in LowerLetters \cup Digits \cup {".", "-"}

(***************************************************************************)
(* parser.ts: extractProvisions.  The state of the pass is                 *)
(* [currentChapter, active, provisions]; NoChapter stands for undefined    *)
(* and NoActive for null (no paragraph and no block list is empty).        *)
(***************************************************************************)
\* a faulty variant: the pattern alone makes a heading, whatever the length
IsHeadingAnyLength(paragraph) == ChapterTest(paragraph)

\* a body shorter than this is discarded by flush
MinContentLength == 20

\* a heading paragraph is at most this long
MaxHeadingLength == 140

NoChapter == <<>>

NoActive == [section |-> <<>>, chapter |-> NoChapter, blocks |-> <<>>]

SegInit == [currentChapter |-> NoChapter, active |-> NoActive, provisions |-> <<>>]

\* blocks.join('\n\n')
RECURSIVE JoinBlocks(_)
JoinBlocks(blocks) ==
  IF blocks = <<>> THEN <<>>
  ELSE IF Len(blocks) = 1 THEN blocks[1]
  ELSE blocks[1] \o <<"LF", "LF">> \o JoinBlocks(Tail(blocks))

ArticuloTitle(section) == <<"A", "r", "t", "i_ac", "c", "u", "l", "o", " ">> \o section

\* a faulty variant: the body is pushed whatever its length
flushAnyLength(st) ==
  IF st.active = NoActive THEN st
  ELSE [st EXCEPT
          !.provisions = Append(@, [provision_ref |-> toProvisionRef(st.active.section),
                                    chapter |-> st.active.chapter,
                                    section |-> st.active.section,
                                    title |-> ArticuloTitle(st.active.section),
                                    content |-> normalizeWhitespace(
                                                  JoinBlocks(st.active.blocks))]),
          !.active = NoActive]

flush(st) ==
  IF st.active = NoActive THEN st
  ELSE LET content == normalizeWhitespace(JoinBlocks(st.active.blocks))
       IN  IF Len(content) < MinContentLength
           THEN [st EXCEPT !.active = NoActive]
           ELSE [st EXCEPT
                   !.provisions = Append(@, [provision_ref |-> toProvisionRef(st.active.section),
                                             chapter |-> st.active.chapter,
                                             section |-> st.active.section,
                                             title |-> ArticuloTitle(st.active.section),
                                             content |-> content]),
                   !.active = NoActive]

IsHeading(paragraph) == ChapterTest(paragraph) /\ Len(paragraph) <= MaxHeadingLength

\* a faulty variant: a heading met inside an article also joins its body
SegStepHeadingInBody(st, paragraph) ==
  IF IsHeading(paragraph)
  THEN IF st.active # NoActive
       THEN [st EXCEPT !.currentChapter = paragraph, !.active.blocks = Append(@, paragraph)]
       ELSE [st EXCEPT !.currentChapter = paragraph]
  ELSE IF ArticleMatch(paragraph).matched
    THEN [flush(st) EXCEPT
            !.active = [section |-> normalizeSection(ArticleMatch(paragraph).group1),
                        chapter |-> st.currentChapter,
                        blocks |-> <<paragraph>>]]
  ELSE IF st.active # NoActive
    THEN [st EXCEPT !.active.blocks = Append(@, paragraph)]
  ELSE st

\* one iteration of the for loop of extractProvisions
SegStep(st, paragraph) ==
  IF IsHeading(paragraph) THEN [st EXCEPT !.currentChapter = paragraph]
  ELSE IF ArticleMatch(paragraph).matched
    THEN [flush(st) EXCEPT
            !.active = [section |-> normalizeSection(ArticleMatch(paragraph).group1),
                        chapter |-> st.currentChapter,
                        blocks |-> <<paragraph>>]]
  ELSE IF st.active # NoActive
    THEN [st EXCEPT !.active.blocks = Append(@, paragraph)]
  ELSE st

\* the for loop and the final flush: the candidate provisions, in order
RECURSIVE SegLoop(_, _)
SegLoop(st, paragraphs) ==
  IF paragraphs = <<>> THEN st
  ELSE SegLoop(SegStep(st, Head(paragraphs)), Tail(paragraphs))

Candidates(paragraphs) == flush(SegLoop(SegInit, paragraphs)).provisions

\* the bySection map after the candidates cs: a Map keeps its keys in the
\* order of their first insertion, so it is a sequence without two equal
\* sections
\* a faulty variant: the first candidate of a section is kept
DedupKeepFirst(acc, cs) ==
  LET all == acc \o cs
  IN  PickSeq(all, {i \in 1..Len(all) : \A j \in 1..(i - 1) : all[j].section # all[i].section})

RECURSIVE DedupBySection(_, _)
DedupBySection(acc, cs) ==
  IF cs = <<>> THEN acc
  ELSE LET p == Head(cs)
           at == {i \in 1..Len(acc) : acc[i].section = p.section}
       IN  IF at = {} THEN DedupBySection(Append(acc, p), Tail(cs))
           ELSE LET i == CHOOSE j \in at : TRUE
                IN  IF Len(p.content) > Len(acc[i].content)
                    THEN DedupBySection([acc EXCEPT ![i] = p], Tail(cs))
                    ELSE DedupBySection(acc, Tail(cs))

extractProvisionsOf(paragraphs) == DedupBySection(<<>>, Candidates(paragraphs))

(***************************************************************************)
(* parser.ts: extractDefinitions.  "n_ti" and "N_ti" are the letter n with *)
(* tilde, small and capital.                                               *)
(***************************************************************************)
\* String.prototype.includes
Includes(s, pat) == \E i \in 1..(Len(s) - Len(pat) + 1) : HasPrefixAt(s, i, pat)

SeEntiendePor ==
  <<"s", "e", " ", "e", "n", "t", "i", "e", "n", "d", "e", " ", "p", "o", "r">>

Definiciones == <<"d", "e", "f", "i", "n", "i", "c", "i", "o", "n", "e", "s">>

\* lines 287-290: whether the provision is searched for definitions
MentionsDefinitions(content) ==
  Includes(ToLowerCase(content), SeEntiendePor) \/ Includes(ToLowerCase(content), Definiciones)

\* [a-zñ] under the i flag
LiteralLetters == AsciiLetters \cup {"n_ti", "N_ti"}

\* the most definitions a document returns
MaxDefinitions == 80

\* the bounds {2,120} of the term in byLiteral and of lines 298
MinTermLength == 2

MaxTermLength == 120

MinDefinitionLength == 8

\* replace(/[. ]+$/, '') and replace(/[; ]+$/, ''): the trailing run is removed
StripTrailing(s, class) ==
  IF s = <<>> THEN <<>>
  ELSE IF SkipSetBack(s, Len(s), class) = 0 THEN <<>>
  ELSE SubSeq(s, 1, SkipSetBack(s, Len(s), class))

NoLiteralMatch == [ok |-> FALSE, term |-> <<>>, definition |-> <<>>, lastIndex |-> 0]

\* \s*([^:;\n]{2,120}?)\s*: after the ')' that ends at index r - 1: the pairs
\* <<t, n>> of a start t the greedy \s* can give back to and a length n of the
\* term from t that \s*: follows
LiteralTerms(s, r) ==
  {tn \in (r..SkipSet(s, r, Spaces)) \X (MinTermLength..MaxTermLength) :
     /\ tn[1] + tn[2] - 1 <= Len(s)
     /\ \A k \in tn[1]..(tn[1] + tn[2] - 1) : s[k] \notin {":", ";", "LF"}
     /\ At(s, SkipSet(s, tn[1] + tn[2], Spaces)) = ":"}

\* ([^\n]+?)(?=(?:\n\s*[a-zñ]\)\s)|$): the definition runs from d to the end of
\* its line, where alone the lookahead holds
byLiteralTail(s, tn, d) ==
  [ok |-> TRUE, term |-> SubSeq(s, tn[1], tn[1] + tn[2] - 1),
   definition |-> SubSeq(s, d, FindSet(s, d, {"LF"}) - 1),
   lastIndex |-> FindSet(s, d, {"LF"})]

\* :\s* with the colon at index c: the greedy \s* stops at the first unit that
\* is no white space; when only white space is left it gives back units, from
\* the end, until one that is no line feed can start the definition
byLiteralColon(s, tn, c) ==
  IF \A j \in (c + 1)..Len(s) : s[j] = "LF" THEN NoLiteralMatch
  ELSE byLiteralTail(s, tn,
         IF SkipSet(s, c + 1, Spaces) <= Len(s) THEN SkipSet(s, c + 1, Spaces)
         ELSE SkipSetBack(s, Len(s), {"LF"}))

\* the term the engine finds first among terms: \s* gives back one unit at a
\* time (the latest start), the lazy quantifier grows (the shortest length)
byLiteralTerm(s, terms) ==
  IF terms = {} THEN NoLiteralMatch
  ELSE LET tn == CHOOSE x \in terms :
                   \A y \in terms : x[1] > y[1] \/ (x[1] = y[1] /\ x[2] <= y[2])
       IN  byLiteralColon(s, tn, SkipSet(s, tn[1] + tn[2], Spaces))

\* (?:^|\n)\s*([a-zñ])\) with the letter at index q
byLiteralLetter(s, p, q) ==
  IF /\ p = 1 \/ s[p - 1] = "LF" \/ s[p] = "LF"
     /\ At(s, q) \in LiteralLetters
     /\ At(s, q + 1) = ")"
  THEN byLiteralTerm(s, LiteralTerms(s, q + 2))
  ELSE NoLiteralMatch

\* the match of byLiteral that starts at index p of s, if there is one
byLiteralAt(s, p) == byLiteralLetter(s, p, SkipSet(s, p, Spaces))

\* the indexes of s at which byLiteral can match
byLiteralStarts(s) == {p \in 1..Len(s) : byLiteralAt(s, p).ok}

\* the while loop of byLiteral.exec from lastIndex from: each turn takes the
\* leftmost match that starts at or after lastIndex; ps is byLiteralStarts(s)
RECURSIVE byLiteralLoop(_, _, _)
byLiteralLoop(s, from, ps) ==
  LET next == {p \in ps : p >= from}
  IN  IF next = {} THEN <<>>
      ELSE <<byLiteralAt(s, MinOf(next))>>
             \o byLiteralLoop(s, byLiteralAt(s, MinOf(next)).lastIndex, next)

\* lines 295-297: the term, the definition and the key of a match
DefinitionOfMatch(m, ref) ==
  [term |-> StripTrailing(normalizeWhitespace(m.term), {".", " "}),
   definition |-> StripTrailing(normalizeWhitespace(m.definition), {";", " "}),
   source_provision |-> ref]

\* the definitions the matches ms of a provision give, before the checks
DefinitionsOfMatches(ms, ref) == [k \in 1..Len(ms) |-> DefinitionOfMatch(ms[k], ref)]

\* lines 286-296 for one provision
LiteralDefinitions(provision) ==
  IF ~MentionsDefinitions(provision.content) THEN <<>>
  ELSE DefinitionsOfMatches(
         byLiteralLoop(provision.content, 1, byLiteralStarts(provision.content)),
         provision.provision_ref)

\* a faulty variant: the terms are compared as written
DefinitionKeyExact(term) == term

\* line 297: term.toLowerCase()
DefinitionKey(term) == ToLowerCase(term)

\* lines 299-300: the length checks
HasValidLengths(d) ==
  /\ Len(d.term) >= MinTermLength
  /\ Len(d.term) <= MaxTermLength
  /\ Len(d.definition) >= MinDefinitionLength

\* lines 299-303 over the candidates cs in order: a candidate is pushed when
\* its lengths are valid and no earlier candidate with valid lengths has its key
\* (seen holds the keys of the candidates pushed so far)
PushChecked(cs) ==
  PickSeq(cs, {i \in 1..Len(cs) :
                 /\ HasValidLengths(cs[i])
                 /\ \A j \in 1..(i - 1) :
                      HasValidLengths(cs[j]) =>
                        DefinitionKey(cs[j].term) # DefinitionKey(cs[i].term)})

\* the array definitions when the loops end
PushedDefinitions(provisions) ==
  PushChecked(Flatten([k \in 1..Len(provisions) |-> LiteralDefinitions(provisions[k])]))

\* definitions.slice(0, 80)
SliceDefinitions(defs) ==
  IF Len(defs) > MaxDefinitions THEN SubSeq(defs, 1, MaxDefinitions) ELSE defs

extractDefinitions(provisions) == SliceDefinitions(PushedDefinitions(provisions))

(***************************************************************************)
(* parser.ts: parseDateFromMedioPublicacion.  Both patterns have the i     *)
(* flag: they are matched on the lower-cased text, and the captures are    *)
(* digits or are lower-cased by the lookup.                                *)
(***************************************************************************)
\* MONTHS_ES, lines 50-64: the own properties of the object, in order
MONTHS_ES ==
  << <<<<"e", "n", "e", "r", "o">>, <<"0", "1">>>>,
     <<<<"f", "e", "b", "r", "e", "r", "o">>, <<"0", "2">>>>,
     <<<<"m", "a", "r", "z", "o">>, <<"0", "3">>>>,
     <<<<"a", "b", "r", "i", "l">>, <<"0", "4">>>>,
     <<<<"m", "a", "y", "o">>, <<"0", "5">>>>,
     <<<<"j", "u", "n", "i", "o">>, <<"0", "6">>>>,
     <<<<"j", "u", "l", "i", "o">>, <<"0", "7">>>>,
     <<<<"a", "g", "o", "s", "t", "o">>, <<"0", "8">>>>,
     <<<<"s", "e", "p", "t", "i", "e", "m", "b", "r", "e">>, <<"0", "9">>>>,
     <<<<"s", "e", "t", "i", "e", "m", "b", "r", "e">>, <<"0", "9">>>>,
     <<<<"o", "c", "t", "u", "b", "r", "e">>, <<"1", "0">>>>,
     <<<<"n", "o", "v", "i", "e", "m", "b", "r", "e">>, <<"1", "1">>>>,
     <<<<"d", "i", "c", "i", "e", "m", "b", "r", "e">>, <<"1", "2">>>> >>

\* what a template literal makes of Object.prototype.constructor
ObjectFunctionText == <<"function Object() { [native code] }">>

\* the properties of Object.prototype whose name can match [a-z]+
InheritedProperties == { <<<<"c", "o", "n", "s", "t", "r", "u", "c", "t", "o", "r">>, ObjectFunctionText>> }

\* undefined
Undefined == <<>>

\* a faulty variant: the day is used as captured
padStartNone(day) == day

\* day.padStart(2, '0')
padStart2(day) == IF Len(day) < 2 THEN <<"0">> \o day ELSE day

\* MONTHS_ES[name]: an own property, else a property the object inherits, else
\* undefined
MonthOf(name) ==
  IF \E k \in 1..Len(MONTHS_ES) : MONTHS_ES[k][1] = name
  THEN MONTHS_ES[CHOOSE k \in 1..Len(MONTHS_ES) : MONTHS_ES[k][1] = name][2]
  ELSE IF \E pr \in InheritedProperties : pr[1] = name
  THEN (CHOOSE pr \in InheritedProperties : pr[1] = name)[2]
  ELSE Undefined

\* [a-z0-9_], the characters \b tells from the others
WordChars == LowerLetters \cup UpperLetters \cup Digits \cup {"_"}

\* [a-záéíóú] under the i flag, on lower-cased text
MonthLetters == LowerLetters \cup {"i_ac", "o_ac"}

MedioDePublicacion == <<"m", "e", "d", "i", "o", " ", "d", "e", " ", "p", "u", "b", "l", "i", "c", "a", "c", "i", "o_ac", "n", ":">>

DiarioOficial == <<"d", "i", "a", "r", "i", "o", " ", "o", "f", "i", "c", "i", "a", "l">>

\* Medio de Publicación:\s*Diario Oficial at position p of q: the position
\* after it, 0 when it does not match there
MedioHeadAt(q, p) ==
  IF /\ HasPrefixAt(q, p, MedioDePublicacion)
     /\ HasPrefixAt(q, SkipSet(q, p + Len(MedioDePublicacion), Spaces), DiarioOficial)
  THEN SkipSet(q, p + Len(MedioDePublicacion), Spaces) + Len(DiarioOficial)
  ELSE 0

\* \b before the position s of q, where a letter stands
BoundaryBefore(q, s) == s = 1 \/ q[s - 1] \notin WordChars

NoDateMatch == [matched |-> FALSE, month |-> <<>>, day |-> <<>>, year |-> <<>>]

\* \s+de\s+(\d{4}) at position d of q, after the captures mo and dy
DateYearAt(q, d, mo, dy) ==
  IF /\ SkipSet(q, d, Spaces) > d
     /\ HasPrefixAt(q, SkipSet(q, d, Spaces), <<"d", "e">>)
     /\ SkipSet(q, SkipSet(q, d, Spaces) + 2, Spaces) > SkipSet(q, d, Spaces) + 2
     /\ SkipSet(q, SkipSet(q, SkipSet(q, d, Spaces) + 2, Spaces), Digits)
          >= SkipSet(q, SkipSet(q, d, Spaces) + 2, Spaces) + 4
  THEN [matched |-> TRUE, month |-> mo, day |-> dy,
        year |-> SubSeq(q, SkipSet(q, SkipSet(q, d, Spaces) + 2, Spaces),
                        SkipSet(q, SkipSet(q, d, Spaces) + 2, Spaces) + 3)]
  ELSE NoDateMatch

\* (\d{1,2}) at position c of q and what follows it in pattern1
Pattern1Day(q, c, mo) ==
  IF SkipSet(q, c, Digits) - c \in {1, 2}
  THEN DateYearAt(q, SkipSet(q, c, Digits), mo, SubSeq(q, c, SkipSet(q, c, Digits) - 1))
  ELSE NoDateMatch

\* ([a-záéíóú]+)\s+ at position a of q and what follows it in pattern1
Pattern1Month(q, a) ==
  IF /\ SkipSet(q, a, MonthLetters) > a
     /\ SkipSet(q, SkipSet(q, a, MonthLetters), Spaces) > SkipSet(q, a, MonthLetters)
  THEN Pattern1Day(q, SkipSet(q, SkipSet(q, a, MonthLetters), Spaces),
                   SubSeq(q, a, SkipSet(q, a, MonthLetters) - 1))
  ELSE NoDateMatch

\* \bde\s+([a-záéíóú]+)\s+(\d{1,2})\s+de\s+(\d{4}) at position s of q
Pattern1At(q, s) ==
  IF /\ BoundaryBefore(q, s)
     /\ HasPrefixAt(q, s, <<"d", "e">>)
     /\ SkipSet(q, s + 2, Spaces) > s + 2
  THEN Pattern1Month(q, SkipSet(q, s + 2, Spaces))
  ELSE NoDateMatch

\* ([a-záéíóú]+) at position c of q and what follows it in pattern2
Pattern2Month(q, c, dy) ==
  IF SkipSet(q, c, MonthLetters) > c
  THEN DateYearAt(q, SkipSet(q, c, MonthLetters), SubSeq(q, c, SkipSet(q, c, MonthLetters) - 1), dy)
  ELSE NoDateMatch

\* \s+de\s+ at position b of q, after the day, and what follows it in pattern2
Pattern2De(q, b, dy) ==
  IF /\ SkipSet(q, b, Spaces) > b
     /\ HasPrefixAt(q, SkipSet(q, b, Spaces), <<"d", "e">>)
     /\ SkipSet(q, SkipSet(q, b, Spaces) + 2, Spaces) > SkipSet(q, b, Spaces) + 2
  THEN Pattern2Month(q, SkipSet(q, SkipSet(q, b, Spaces) + 2, Spaces), dy)
  ELSE NoDateMatch

\* (\d{1,2}) at position a of q and what follows it in pattern2
Pattern2Day(q, a) ==
  IF SkipSet(q, a, Digits) - a \in {1, 2}
  THEN Pattern2De(q, SkipSet(q, a, Digits), SubSeq(q, a, SkipSet(q, a, Digits) - 1))
  ELSE NoDateMatch

\* the position after del? at s when \s+ follows it there, 0 otherwise; the
\* optional l is taken if it can be, and without it no space follows de
AfterDel(q, s) ==
  IF At(q, s + 2) = "l" /\ SkipSet(q, s + 3, Spaces) > s + 3 THEN SkipSet(q, s + 3, Spaces)
  ELSE IF SkipSet(q, s + 2, Spaces) > s + 2 THEN SkipSet(q, s + 2, Spaces)
  ELSE 0

\* \bdel?\s+(\d{1,2})\s+de\s+([a-záéíóú]+)\s+de\s+(\d{4}) at position s of q
Pattern2At(q, s) ==
  IF /\ BoundaryBefore(q, s)
     /\ HasPrefixAt(q, s, <<"d", "e">>)
     /\ AfterDel(q, s) > 0
  THEN Pattern2Day(q, AfterDel(q, s))
  ELSE NoDateMatch

\* the positions [^.]*? can end before when it starts at h: up to the first
\* full stop after h
GapEnds(q, h) == {s \in h..Len(q) : \A k \in h..(s - 1) : q[k] # "."}

\* pattern1 with its head at p: the lazy gap ends at the first position where
\* the rest matches
Pattern1From(q, p) ==
  IF MedioHeadAt(q, p) = 0 THEN NoDateMatch
  ELSE IF \A s \in GapEnds(q, MedioHeadAt(q, p)) : ~Pattern1At(q, s).matched THEN NoDateMatch
  ELSE Pattern1At(q, MinOf({s \in GapEnds(q, MedioHeadAt(q, p)) : Pattern1At(q, s).matched}))

Pattern2From(q, p) ==
  IF MedioHeadAt(q, p) = 0 THEN NoDateMatch
  ELSE IF \A s \in GapEnds(q, MedioHeadAt(q, p)) : ~Pattern2At(q, s).matched THEN NoDateMatch
  ELSE Pattern2At(q, MinOf({s \in GapEnds(q, MedioHeadAt(q, p)) : Pattern2At(q, s).matched}))

\* plain.match(pattern1): the match at the first position that has one
Pattern1(q) ==
  IF \A p \in 1..Len(q) : ~Pattern1From(q, p).matched THEN NoDateMatch
  ELSE Pattern1From(q, MinOf({p \in 1..Len(q) : Pattern1From(q, p).matched}))

Pattern2(q) ==
  IF \A p \in 1..Len(q) : ~Pattern2From(q, p).matched THEN NoDateMatch
  ELSE Pattern2From(q, MinOf({p \in 1..Len(q) : Pattern2From(q, p).matched}))

\* lines 182-185 and 192-195: the date of a match m
DateOfMatch(m) ==
  IF MonthOf(m.month) = Undefined THEN Undefined
  ELSE m.year \o <<"-">> \o MonthOf(m.month) \o <<"-">> \o padStart2(m.day)

\* lines 178-198 on the lower-cased plain text: pattern1, then pattern2
DateOfMatches(m1, m2) ==
  IF m1.matched THEN DateOfMatch(m1)
  ELSE IF m2.matched THEN DateOfMatch(m2)
  ELSE Undefined

DateOfPlain(plain) ==
  DateOfMatches(Pattern1(ToLowerCase(plain)), Pattern2(ToLowerCase(plain)))

\* parseDateFromMedioPublicacion: the date, or the exception of the decoding
parseDateFromMedioPublicacion(html) ==
  IF decodeHtmlEntities(stripTags(html)).threw
  THEN Throw(decodeHtmlEntities(stripTags(html)).msg)
  ELSE Return(DateOfPlain(normalizeWhitespace(decodeHtmlEntities(stripTags(html)).val)))

(***************************************************************************)
(* parser.ts: parseNormaHtml.  The record of the model keeps the id, the   *)
(* issued date, the provisions and the definitions of the ParsedAct.       *)
(***************************************************************************)
\* parseDateFromMedioPublicacion, line 176: the decoded text of the page
PlainText(html) == decodeHtmlEntities(stripTags(html))

ContentHtml(html) == IF extractClassBlock(html).isNull THEN <<>> ELSE extractClassBlock(html).val

\* lines 320-334: the ParsedAct of the provisions
ParsedActOf(lawId, issuedDate, provisions) ==
  [id |-> lawId, issued_date |-> issuedDate, provisions |-> provisions,
   definitions |-> extractDefinitions(provisions)]

\* lines 317-320 with what decoding the page (plain) and the paragraphs of the
\* content (paragraphs) gave: an exception of either leaves parseNormaHtml
ParsedOrThrown(lawId, plain, paragraphs) ==
  IF plain.threw THEN Throw(plain.msg)
  ELSE IF paragraphs.threw THEN Throw(paragraphs.msg)
  ELSE Return(ParsedActOf(lawId, DateOfPlain(normalizeWhitespace(plain.val)),
                          extractProvisionsOf(paragraphs.val)))

parseNormaHtml(html, lawId) ==
  ParsedOrThrown(lawId, PlainText(html), extractParagraphs(ContentHtml(html)))

(***************************************************************************)
(* Input documents of the parser specification.                            *)
(***************************************************************************)
Rep(c, n) == [i \in 1..n |-> c]

KwArticulo == <<"A", "r", "t", "i_ac", "c", "u", "l", "o">>

KwARTICULO == <<"A", "R", "T", "I", "C", "U", "L", "O">>

\* the inner HTML of the paragraphs documents are made of
ParagraphPool ==
  << KwArticulo \o <<" ", "1", ".", " ">> \o Rep("x", 8),
     KwArticulo \o <<" ", "1", ".", " ">> \o Rep("x", 7),
     KwArticulo \o <<" ", "1", "&ordm;", ".", " ">> \o Rep("x", 12),
     KwARTICULO \o <<" ", "2", ".", "NBSP">> \o Rep("x", 10),
     <<"A", "r", "t", "&iacute;", "c", "u", "l", "o">>
        \o <<" ", "1", ".", "2", "-", "3", "A", " ">> \o Rep("x", 10),
     KwArticulo \o <<" ", "1">>,
     <<"C", "A", "P", "I_ac", "T", "U", "L", "O", " ", "I">>,
     Rep("x", 5),
     Rep("x", 3) \o <<"&#1114112;">> >>

RECURSIVE WrapParagraphs(_)
WrapParagraphs(ps) ==
  IF ps = <<>> THEN <<>>
  ELSE <<"<p>">> \o ParagraphPool[Head(ps)] \o <<"</p>">> \o WrapParagraphs(Tail(ps))

DocShapes == {"container", "bare"}

\* the pages without a container have at most this many paragraphs
MaxBareParas == 1

\* a page: the paragraphs inside the content container, or with no container
MakeDoc(shape, ps) ==
  IF shape = "container"
  THEN <<ContainerOpen>> \o WrapParagraphs(ps) \o <<"</div>">>
  ELSE WrapParagraphs(ps)

ParaChoices == UNION {[1..n -> 1..Len(ParagraphPool)] : n \in 0..MaxParas}

\* the inner HTML of the paragraphs the documents with definitions are made of
DefinitionPool ==
  << KwArticulo \o <<" ", "1", ".", " ">> \o <<"D">> \o Tail(Definiciones),
     KwArticulo \o <<" ", "2", ".", " ">> \o <<"S", "E", " ">> \o Tail2(SeEntiendePor, 4),
     KwArticulo \o <<" ", "3", ".", " ">> \o Rep("x", 12),
     <<"a", ")", " ", "D", "a", "t", "o", ":", " ">> \o Rep("u", 8),
     <<"b", ")", " ", "D", "A", "T", "O", ".", " ", ":", " ">> \o Rep("v", 9) \o <<" ", ";">>,
     <<"c", ")", " ", "x", ":", " ">> \o Rep("w", 8),
     <<"D", ")", " ", "B", "a", "s", "e", ":", " ">> \o Rep("y", 7),
     <<"e", ")", " ", "U", "s", "o", ":", " ">> \o Rep("z", 8)
        \o <<"LF", "f", ")", " ", "R", "e", "d", ":", " ">> \o Rep("z", 8),
     <<"g", ")", " ">> \o Rep("t", 121) \o <<":", " ">> \o Rep("z", 8) >>

\* paragraphs per generated document with definitions
MaxDefinitionParas == 3

DefinitionChoices ==
  UNION {[1..n -> 1..Len(DefinitionPool)] : n \in 0..MaxDefinitionParas}

RECURSIVE WrapDefinitionParagraphs(_)
WrapDefinitionParagraphs(ps) ==
  IF ps = <<>> THEN <<>>
  ELSE <<"<p>">> \o DefinitionPool[Head(ps)] \o <<"</p>">> \o WrapDefinitionParagraphs(Tail(ps))

\* the letters the terms of the long document are made of
TermLetters == <<"a", "b", "c", "d", "e", "f", "g", "h", "i">>

\* the lines of the long document: one more than MaxDefinitions
ManyLines == MaxDefinitions + 1

\* a page whose one article defines ManyLines distinct terms of two letters,
\* one per line of its second paragraph
ManyDefinitionsDoc ==
  <<ContainerOpen, "<p>">> \o KwArticulo \o <<" ", "1", ".", " ">> \o Definiciones
     \o <<"</p>", "<p>">>
     \o Flatten([k \in 1..ManyLines |->
                   <<"a", ")", TermLetters[((k - 1) \div 9) + 1], TermLetters[((k - 1) % 9) + 1],
                     ":">> \o Rep("u", 8) \o <<"LF">>])
     \o <<"</p>", "</div>">>

\* the inner HTML of the paragraphs the documents with headings are made of:
\* two short headings, one of exactly MaxHeadingLength units, one of one unit
\* more, two article openings and a paragraph that is neither
HeadingPool ==
  << <<"C", "A", "P", "I_ac", "T", "U", "L", "O", " ", "I">>,
     <<"T", "i_ac", "t", "u", "l", "o", " ", "2">>,
     <<"S", "E", "C", "C", "I", "O_ac", "N", " ", "A", " ">> \o Rep("y", MaxHeadingLength - 10),
     <<"S", "E", "C", "C", "I", "O_ac", "N", " ", "A", " ">> \o Rep("y", MaxHeadingLength - 9),
     KwArticulo \o <<" ", "1", ".", " ">> \o Rep("x", 8),
     KwARTICULO \o <<" ", "2", ".", " ">> \o Rep("x", 10),
     Rep("x", 5) >>

\* paragraphs per generated document with headings
MaxHeadingParas == 3

HeadingChoices == UNION {[1..n -> 1..Len(HeadingPool)] : n \in 1..MaxHeadingParas}

RECURSIVE WrapHeadingParagraphs(_)
WrapHeadingParagraphs(ps) ==
  IF ps = <<>> THEN <<>>
  ELSE <<"<p>">> \o HeadingPool[Head(ps)] \o <<"</p>">> \o WrapHeadingParagraphs(Tail(ps))

\* the month names of the pages with a publication sentence, each with the
\* number the month table gives it (none for a name that is not in the table)
DateMonths ==
  << [name |-> <<"e", "n", "e", "r", "o">>, number |-> <<"0", "1">>],
     [name |-> <<"S", "e", "t", "i", "e", "m", "b", "r", "e">>, number |-> <<"0", "9">>],
     [name |-> <<"D", "I", "C", "I", "E", "M", "B", "R", "E">>, number |-> <<"1", "2">>],
     [name |-> <<"b", "r", "u", "m", "a", "r", "i", "o">>, number |-> <<>>],
     [name |-> <<"c", "o", "n", "s", "t", "r", "u", "c", "t", "o", "r">>, number |-> <<>>] >>

DateDays == {<<"1">>, <<"1", "8">>, <<"1", "1", "8">>}

DateYears == {<<"2", "0", "1", "2">>, <<"1", "9", "5", "9">>}

\* what stands between 'Diario Oficial' and the date: nothing, a number, a
\* number after an abbreviation with a full stop
DateGaps == {<<>>, <<" ", "N", "o", " ", "4", "8", "3", "0", "8">>, <<" ", "N", "o", ".", " ", "4", "8", "3", "0", "8">>}

DateOrders == {"monthFirst", "dayFirst"}

DateChoices ==
  [month : 1..Len(DateMonths), day : DateDays, year : DateYears, gap : DateGaps,
   order : DateOrders]

\* the publication sentence of a choice
DateSentence(c) ==
  <<"M", "e", "d", "i", "o", " ", "d", "e", " ", "P", "u", "b", "l", "i", "c", "a", "c", "i", "o_ac", "n", ":", " ", "D", "i", "a", "r", "i", "o", " ", "O", "f", "i", "c", "i", "a", "l">> \o c.gap \o
  (IF c.order = "monthFirst"
   THEN <<" ", "d", "e", " ">> \o DateMonths[c.month].name \o <<" ">> \o c.day
   ELSE <<" ", "d", "e", "l", " ">> \o c.day \o <<" ", "d", "e", " ">> \o DateMonths[c.month].name)
  \o <<" ", "d", "e", " ">> \o c.year

\* a page: the publication sentence in a paragraph, then the content container
\* with one article
DateDoc(c) == <<"<p>">> \o DateSentence(c) \o <<"</p>">> \o MakeDoc("container", <<1>>)

\* the pieces the pages with nested div blocks are made of: the opening tag
\* of the container, a plain opening div tag, a closing div tag and a
\* paragraph that opens an article
DivPieces ==
  << <<ContainerOpen>>,
     <<"<div>">>,
     <<"</div>">>,
     <<"<p>">> \o ParagraphPool[1] \o <<"</p>">> >>

\* pieces per generated page with div blocks
MaxDivPieces == 5

DivChoices == UNION {[1..n -> 1..Len(DivPieces)] : n \in 1..MaxDivPieces}

DivDoc(ps) == Flatten([k \in 1..Len(ps) |-> DivPieces[ps[k]]])

(***************************************************************************)
(* fetcher.ts: constants and pure parts.                                   *)
(***************************************************************************)
MIN_DELAY_MS == 1200

MAX_RETRIES == 3

\* the statuses the portal answers with in the model
Statuses == {200, 404, 429, 500}

\* fetch() rejecting (a transport-level failure), in place of a status
NetworkError == 0

\* line 320: status === 429 || status >= 500
IsTransient(status) == status = 429 \/ status >= 500

\* a faulty variant: the wait grows by two seconds a retry
BackoffLinear(n) == (n + 1) * 2000

\* Math.pow(2, attempt + 1) * 1000
Backoff(n) == (2 ^ (n + 1)) * 1000

\* what one request takes: at once, or longer than the pacing interval
SlowMs == 1500

\* a URL is its path and the number in its query
LAW_SEARCH_URL == <<"funajax.php?t=ejecuta_busqueda_avanzada2&tipdoc=18&pagina=", 1>>

buildNormaUrl(portalId) == <<"norma.php?i=", portalId>>

\* the Error messages of the model
HttpError(status) ==
  CASE status = 404 -> "HTTP 404"
    [] status = 429 -> "HTTP 429"
    [] status = 500 -> "HTTP 500"
    [] OTHER -> "HTTP other"

\* line 342: `Failed to fetch ${url}: ${msg}` for the transport failure
FetchFailedMsg == "Failed to fetch: network down"

SnapshotWriteMsg == "ENOSPC: snapshot"

SeedWriteMsg == "ENOSPC: seed"

(***************************************************************************)
(* parser.ts: TARGET_LAWS (id, fileName, portalId of each entry).          *)
(***************************************************************************)
TARGET_LAWS ==
  << [id |-> "co-ley-1581-2012", fileName |-> "01-ley-1581-2012-proteccion-datos.json",
      portalId |-> 49981],
     [id |-> "co-ley-1266-2008", fileName |-> "02-ley-1266-2008-habeas-data-financiero.json",
      portalId |-> 34488],
     [id |-> "co-ley-1273-2009", fileName |-> "03-ley-1273-2009-delitos-informaticos.json",
      portalId |-> 34492],
     [id |-> "co-ley-1341-2009", fileName |-> "04-ley-1341-2009-sector-tic.json",
      portalId |-> 36913],
     [id |-> "co-ley-527-1999", fileName |-> "05-ley-527-1999-comercio-electronico.json",
      portalId |-> 4276],
     [id |-> "co-ley-1712-2014",
      fileName |-> "06-ley-1712-2014-transparencia-acceso-informacion.json",
      portalId |-> 56882],
     [id |-> "co-decreto-1078-2015", fileName |-> "07-decreto-1078-2015-sector-tic.json",
      portalId |-> 77888],
     [id |-> "co-decreto-1377-2013",
      fileName |-> "08-decreto-1377-2013-reglamenta-ley-1581.json", portalId |-> 53646],
     [id |-> "co-ley-1621-2013",
      fileName |-> "09-ley-1621-2013-inteligencia-contrainteligencia.json",
      portalId |-> 52706],
     [id |-> "co-ley-1978-2019", fileName |-> "10-ley-1978-2019-modernizacion-sector-tic.json",
      portalId |-> 98210] >>

\* the catalog of the model: the first MaxLaws entries
Catalog == SubSeq(TARGET_LAWS, 1, MaxLaws)

(***************************************************************************)
(* The pages the portal serves in the model, by name.                      *)
(***************************************************************************)
Snapshots == {"good", "nocontainer", "badref", "blank"}

PageHtml(page) ==
  CASE page = "good" -> MakeDoc("container", <<1>>)
    [] page = "nocontainer" -> MakeDoc("bare", <<1>>)
    [] page = "badref" -> MakeDoc("container", <<1, 9>>)
    [] page = "blank" -> <<>>

\* what the portal answers a document request with status 200
Pages == {"good", "badref"}

(***************************************************************************)
(* ingest.ts: the discovered catalog.  A search page is the list of its    *)
(* result anchors (portal id and h5 title) and the count it reports; the   *)
(* strings built from a title are tabulated for the titles of the model.   *)
(***************************************************************************)
IndexPages == {"index", "indexNoCount"}

\* the anchors /<a href="norma.php?i=(\d+)">...<h5>([^<]+)<\/h5>/ finds, in order
IndexAnchors(page) ==
  IF page = "index"
  THEN << [portalId |-> 39667, title |-> "Ley 1388 de 2010"],
          [portalId |-> 77888, title |-> "Decreto 1078 de 2015"],
          [portalId |-> 39667, title |-> "Ley 1388 de 2010"],
          [portalId |-> 39668, title |-> "Ley 1388 de 2010"] >>
  ELSE << [portalId |-> 4276, title |-> "Ley Estatutaria" ] >>

\* /^Ley\s+/i.test(title)
IsLeyTitle(title) == title \in {"Ley 1388 de 2010", "Ley Estatutaria"}

\* the loop of extractLawIndexFromSearchHtml over the anchors
RECURSIVE LawIndexLoop(_, _, _)
LawIndexLoop(anchors, seen, out) ==
  IF anchors = <<>> THEN out
  ELSE LET a == Head(anchors)
       IN  IF a.portalId \in seen THEN LawIndexLoop(Tail(anchors), seen, out)
           ELSE IF ~IsLeyTitle(a.title)
             THEN LawIndexLoop(Tail(anchors), seen \cup {a.portalId}, out)
           ELSE LawIndexLoop(Tail(anchors), seen \cup {a.portalId}, Append(out, a))

extractLawIndexFromSearchHtml(page) == LawIndexLoop(IndexAnchors(page), {}, <<>>)

\* lines 150-156 of buildDynamicLawId: the base identifier
DynamicBaseId(entry) ==
  CASE entry.title = "Ley 1388 de 2010" -> "co-ley-1388-2010"
    [] entry.title = "Ley Estatutaria" /\ entry.portalId = 4276 -> "co-ley-i4276"
    [] OTHER -> "co-ley-other"

\* line 163: `${base}-i${entry.portalId}`
WithPortalId(base, portalId) ==
  CASE base = "co-ley-1388-2010" /\ portalId = 39667 -> "co-ley-1388-2010-i39667"
    [] base = "co-ley-1388-2010" /\ portalId = 39668 -> "co-ley-1388-2010-i39668"
    [] OTHER -> "co-ley-other-i"

\* buildDynamicLawId: the identifier, given the identifiers used so far
buildDynamicLawId(entry, usedIds) ==
  IF DynamicBaseId(entry) \notin usedIds THEN DynamicBaseId(entry)
  ELSE WithPortalId(DynamicBaseId(entry), entry.portalId)

\* line 177: `${String(idx + 1).padStart(4, '0')}-${safeTitle}.json`
DynamicFileName(i, entry) ==
  CASE i = 0 /\ entry.title = "Ley 1388 de 2010" -> "0001-ley-1388-de-2010.json"
    [] i = 1 /\ entry.title = "Ley 1388 de 2010" -> "0002-ley-1388-de-2010.json"
    [] i = 0 /\ entry.title = "Ley Estatutaria" -> "0001-ley-estatutaria.json"
    [] OTHER -> "0000-other.json"

RECURSIVE DynamicLawsLoop(_, _, _, _)
DynamicLawsLoop(entries, i, usedIds, out) ==
  IF i >= Len(entries) THEN out
  ELSE LET id == buildDynamicLawId(entries[i + 1], usedIds)
       IN  DynamicLawsLoop(entries, i + 1, usedIds \cup {id},
             Append(out, [id |-> id,
                          fileName |-> DynamicFileName(i, entries[i + 1]),
                          portalId |-> entries[i + 1].portalId]))

buildDynamicTargetLaws(entries) == DynamicLawsLoop(entries, 0, {}, <<>>)

(***************************************************************************)
(* ingest.ts: slugify, buildDynamicLawId and buildDynamicTargetLaws over   *)
(* titles and identifiers written unit by unit.                            *)
(***************************************************************************)
DigitSeq == <<"0", "1", "2", "3", "4", "5", "6", "7", "8", "9">>

\* `${n}` and String(n) of a non-negative integer
RECURSIVE DigitsOf(_)
DigitsOf(n) ==
  IF n < 10 THEN <<DigitSeq[n + 1]>> ELSE DigitsOf(n \div 10) \o <<DigitSeq[(n % 10) + 1]>>

\* normalize('NFKD') and the removal of the combining marks U+0300..U+036F on
\* one unit: the accent is split off and removed, the ordinal sign and U+00A0
\* are replaced by their compatibility decompositions
StripMark(c) ==
  CASE c = "i_ac" -> "i" [] c = "I_ac" -> "I" [] c = "o_ac" -> "o" [] c = "O_ac" -> "O"
    [] c = "n_ti" -> "n" [] c = "N_ti" -> "N" [] c = "ordm" -> "o" [] c = "NBSP" -> " "
    [] OTHER -> c

\* replace(/^-+|-+$/g, '')
TrimDashes(s) ==
  IF SkipSet(s, 1, {"-"}) > Len(s) THEN <<>>
  ELSE SubSeq(s, SkipSet(s, 1, {"-"}), SkipSetBack(s, Len(s), {"-"}))

MaxSlugLength == 80

slugify(input) ==
  LET t == TrimDashes(SlugRuns(ToLowerCase([k \in 1..Len(input) |-> StripMark(input[k])])))
  IN  IF Len(t) > MaxSlugLength THEN SubSeq(t, 1, MaxSlugLength) ELSE t

\* [0-9A-Za-z.-]
LawNumberUnits == Digits \cup AsciiLetters \cup {".", "-"}

NoLeyMatch == [matched |-> FALSE, number |-> <<>>, year |-> <<>>]

\* /Ley\s+([0-9A-Za-z.-]+)\s+de\s+(\d{4})/i tried at index p of title, with a
\* the start of group 1, b the index after it, c the index of 'de' and d the
\* start of the year: every quantifier is greedy and what follows it cannot
\* start with a unit it takes, so it takes the whole run
LeyMatchD(title, p, a, b, c, d) ==
  IF /\ HasPrefixAt(ToLowerCase(title), p, <<"l", "e", "y">>)
     /\ a > p + 3
     /\ b > a
     /\ c > b
     /\ HasPrefixAt(ToLowerCase(title), c, <<"d", "e">>)
     /\ d > c + 2
     /\ \A k \in d..(d + 3) : At(title, k) \in Digits
  THEN [matched |-> TRUE, number |-> SubSeq(title, a, b - 1), year |-> SubSeq(title, d, d + 3)]
  ELSE NoLeyMatch

LeyMatchC(title, p, a, b, c) == LeyMatchD(title, p, a, b, c, SkipSet(title, c + 2, Spaces))

LeyMatchB(title, p, a, b) == LeyMatchC(title, p, a, b, SkipSet(title, b, Spaces))

LeyMatchA(title, p, a) == LeyMatchB(title, p, a, SkipSet(title, a, LawNumberUnits))

LeyMatchAt(title, p) == LeyMatchA(title, p, SkipSet(title, p + 3, Spaces))

\* entry.title.match(...): the leftmost match
LeyMatch(title) ==
  LET ps == {p \in 1..Len(title) : LeyMatchAt(title, p).matched}
  IN  IF ps = {} THEN NoLeyMatch ELSE LeyMatchAt(title, MinOf(ps))

CoLey == <<"c", "o", "-", "l", "e", "y", "-">>

\* buildDynamicLawId, lines 150-156: base, given the match m of the title
dynamicBaseOf(m, portalId) ==
  IF m.matched THEN CoLey \o slugify(m.number) \o <<"-">> \o m.year
  ELSE CoLey \o <<"i">> \o DigitsOf(portalId)

dynamicBase(entry) == dynamicBaseOf(LeyMatch(entry.title), entry.portalId)

\* line 163: `${base}-i${entry.portalId}`
withPortal(base, portalId) == base \o <<"-", "i">> \o DigitsOf(portalId)

\* a faulty variant: the base is the identifier whether it is used or not
dynamicLawIdBaseOnly(entry, usedIds) == dynamicBase(entry)

\* buildDynamicLawId: the identifier returned, given the identifiers used so far
dynamicLawId(entry, usedIds) ==
  IF dynamicBase(entry) \notin usedIds THEN dynamicBase(entry)
  ELSE withPortal(dynamicBase(entry), entry.portalId)

\* String(n).padStart(4, '0')
PadStart4(n) ==
  IF Len(DigitsOf(n)) >= 4 THEN DigitsOf(n)
  ELSE [k \in 1..(4 - Len(DigitsOf(n))) |-> "0"] \o DigitsOf(n)

\* safeTitle || `ley-i${entry.portalId}`
SafeTitle(safeTitle, portalId) ==
  IF safeTitle # <<>> THEN safeTitle ELSE <<"l", "e", "y", "-", "i">> \o DigitsOf(portalId)

\* a faulty variant: the position is left out of the file name
dynamicFileNameNoIndex(i, entry) ==
  SafeTitle(slugify(entry.title), entry.portalId) \o <<".", "j", "s", "o", "n">>

\* line 177: `${String(idx + 1).padStart(4, '0')}-${...}.json`
dynamicFileName(i, entry) ==
  PadStart4(i + 1) \o <<"-">> \o SafeTitle(slugify(entry.title), entry.portalId)
    \o <<".", "j", "s", "o", "n">>

\* ingestLaw, line 235: `${law.id}.html`
SnapshotName(id) == id \o <<".", "h", "t", "m", "l">>

\* the titles and the portal ids of the discovered entries of the model
TitlePool ==
  << <<"L", "e", "y", " ", "1", "3", "8", "8", " ", "d", "e", " ", "2", "0", "1", "0">>,
     <<"L", "E", "Y", " ", "1", "3", "8", "8", " ", "D", "E", " ", "2", "0", "1", "0">>,
     <<"L", "e", "y", " ", "1", "2", ".", "3", " ", "d", "e", " ", "2", "0", "1", "0">>,
     <<"L", "e", "y", " ", "1", "2", "-", "3", " ", "d", "e", " ", "2", "0", "1", "0">>,
     <<"L", "e", "y", " ", "E", "s", "t", "a", "t", "u", "t", "a", "r", "i", "a">>,
     <<"L", "e", "y", " ", ".", " ", "d", "e", " ", "2", "0", "1", "0">>,
     <<"L", "e", "y", " ", "i", "5", " ", "d", "e", " ", "2", "0", "1", "0">> >>

PortalIds == {5, 39667, 39668}

\* discovered entries per generated index
MaxEntries == 3

\* the sequences of at most MaxEntries entries with pairwise distinct portal ids
EntryChoices ==
  {e \in UNION {[1..n -> [portalId : PortalIds, title : {TitlePool[k] : k \in 1..Len(TitlePool)}]] :
                  n \in 0..MaxEntries} :
     \A i, j \in 1..Len(e) : i # j => e[i].portalId # e[j].portalId}

DynamicIdle == [entries |-> <<>>, usedIds |-> {}, laws |-> <<>>]

\* the limit of CliArgs is null without --limit and <<n>> for the number n
NoLimit == <<>>

\* list.slice(from) for from >= 0
SliceFrom(list, from) ==
  IF from >= Len(list) THEN <<>> ELSE SubSeq(list, from + 1, Len(list))

\* list.slice(0, n) for n >= 0
SliceTo(list, n) == IF n < Len(list) THEN SubSeq(list, 1, n) ELSE list

\* `args.limit ? base.slice(0, args.limit) : base`: null and 0 are falsy
SliceLimit(base, limit) ==
  IF limit # NoLimit /\ limit[1] # 0 THEN SliceTo(base, limit[1]) ELSE base

\* buildLawList, lines 217-218 and 224-225
SliceLaws(list, start, limit) == SliceLimit(SliceFrom(list, start), limit)

\* the law the parser specification parses for
ParserLawId == "co-ley-1581-2012"

ParserIdle ==
  /\ doc = <<>>
  /\ ppc = "idle"
  /\ paras = <<>>
  /\ rest = <<>>
  /\ seg = SegInit
  /\ parsed = Return(<<>>)
  /\ definitions = <<>>
  /\ dynamic = DynamicIdle

(***************************************************************************)
(* The parser, one action per step of parseNormaHtml.                      *)
(***************************************************************************)
\* lines 315-319 when decoding throws: the exception leaves parseNormaHtml
ParseThrow ==
  /\ ppc = "start"
  /\ parseNormaHtml(doc, ParserLawId).threw
  /\ ppc' = "threw"
  /\ parsed' = Throw(parseNormaHtml(doc, ParserLawId).msg)
  /\ UNCHANGED <<doc, paras, rest, seg, definitions>>
  /\ UNCHANGED runVars
  /\ UNCHANGED dynamic

\* lines 315-319 and 224-227: the content is isolated, the paragraphs extracted
ParseStart ==
  /\ ppc = "start"
  /\ ~parseNormaHtml(doc, ParserLawId).threw
  /\ ppc' = "segment"
  /\ paras' = extractParagraphs(ContentHtml(doc)).val
  /\ rest' = paras'
  /\ seg' = SegInit
  /\ UNCHANGED <<doc, parsed, definitions>>
  /\ UNCHANGED runVars
  /\ UNCHANGED dynamic

\* lines 247-250: a heading paragraph
SegHeading ==
  /\ ppc = "segment"
  /\ rest # <<>>
  /\ IsHeading(Head(rest))
  /\ seg' = SegStep(seg, Head(rest))
  /\ rest' = Tail(rest)
  /\ UNCHANGED <<doc, ppc, paras, parsed, definitions>>
  /\ UNCHANGED runVars
  /\ UNCHANGED dynamic

\* lines 252-262: an article-opening paragraph
SegArticle ==
  /\ ppc = "segment"
  /\ rest # <<>>
  /\ ~IsHeading(Head(rest))
  /\ ArticleMatch(Head(rest)).matched
  /\ seg' = SegStep(seg, Head(rest))
  /\ rest' = Tail(rest)
  /\ UNCHANGED <<doc, ppc, paras, parsed, definitions>>
  /\ UNCHANGED runVars
  /\ UNCHANGED dynamic

\* lines 264-266: any other paragraph
SegOther ==
  /\ ppc = "segment"
  /\ rest # <<>>
  /\ ~IsHeading(Head(rest))
  /\ ~ArticleMatch(Head(rest)).matched
  /\ seg' = SegStep(seg, Head(rest))
  /\ rest' = Tail(rest)
  /\ UNCHANGED <<doc, ppc, paras, parsed, definitions>>
  /\ UNCHANGED runVars
  /\ UNCHANGED dynamic

\* lines 269-279 and 320-334: the last flush, the dedup and the assembly
ParseDone ==
  /\ ppc = "segment"
  /\ rest = <<>>
  /\ seg' = flush(seg)
  /\ definitions' = PushedDefinitions(DedupBySection(<<>>, seg'.provisions))
  /\ parsed' = Return([id |-> ParserLawId,
                       issued_date |-> parseDateFromMedioPublicacion(doc).val,
                       provisions |-> DedupBySection(<<>>, seg'.provisions),
                       definitions |-> SliceDefinitions(definitions')])
  /\ ppc' = "done"
  /\ UNCHANGED <<doc, paras, rest>>
  /\ UNCHANGED runVars
  /\ UNCHANGED dynamic

(***************************************************************************)
(* The run: main(), runIngestionWithRetries, ingestLaw, fetchWithRateLimit *)
(* and rateLimit, one action per stretch of code between two awaits.       *)
(***************************************************************************)
\* Date.now() when the process starts (far more than MIN_DELAY_MS after 0)
ProcessStart == 10000

NoResult == [law |-> [id |-> "", fileName |-> "", portalId |-> 0], status |-> "none",
             provisions |-> 0, error |-> ""]

\* a faulty variant: a page without provisions counts as a failure
OkResultUnlessEmpty(law, n) ==
  IF n = 0 THEN [law |-> law, status |-> "failed", provisions |-> 0, error |-> "no provisions"]
  ELSE [law |-> law, status |-> "ok", provisions |-> n, error |-> ""]

OkResult(law, n) == [law |-> law, status |-> "ok", provisions |-> n, error |-> ""]

\* a faulty variant: the message is lost
FailedResultNoMessage(law, msg) == [law |-> law, status |-> "failed", provisions |-> 0, error |-> ""]

FailedResult(law, msg) == [law |-> law, status |-> "failed", provisions |-> 0, error |-> msg]

EmptyMap == [x \in {} |-> x]

NoRequest ==
  [n |-> 0, docs |-> 0, url |-> <<"", 0>>, prevUrl |-> <<"", 0>>, stamp |-> 0, prevStamp |-> 0]

RunIdle ==
  /\ args = [limit |-> NoLimit, start |-> 0, skipFetch |-> FALSE, fullLaws |-> FALSE,
             append |-> FALSE]
  /\ env = ""
  /\ pc = "idle"
  /\ laws = <<>>
  /\ pending = <<>>
  /\ round = 0
  /\ idx = 0
  /\ roundResults = <<>>
  /\ allResults = EmptyMap
  /\ result = NoResult
  /\ results = <<>>
  /\ exitCode = 0
  /\ caller = ""
  /\ attempt = 0
  /\ now = ProcessStart
  /\ lastRequestTime = 0
  /\ insecureTlsNoticeShown = FALSE
  /\ tlsRejectOff = FALSE
  /\ warnings = 0
  /\ sourceDir = EmptyMap
  /\ seedDir = EmptyMap
  /\ history = <<>>
  /\ thrown = ""
  /\ reqLog = NoRequest
  /\ responses = <<>>
  /\ backoffs = <<>>
  /\ slow = 0
  /\ faults = 0

\* the file names of SEED_DIR that end with '.json'
IsJson(file) == file # ".gitkeep"

\* a faulty variant: nothing is removed
keepSeedDirectory(dir) == dir

\* clearSeedDirectory
clearSeedDirectory(dir) == [f \in {g \in DOMAIN dir : ~IsJson(g)} |-> dir[f]]

\* the snapshot of a law in SOURCE_DIR, `${law.id}.html`, named by the id
SourceFile(law) == law.id

\* a faulty variant: one retry more
maxRetriesPlusOne == MAX_RETRIES + 1

\* options.maxRetries ?? MAX_RETRIES: no caller sets the option
maxRetries == MAX_RETRIES

\* the URL the current fetchWithRateLimit call is for
CurrentUrl ==
  IF caller = "index" THEN LAW_SEARCH_URL ELSE buildNormaUrl(pending[idx + 1].portalId)

\* a faulty variant: the warning is logged by every call
FetchEnterWarnEach(who) ==
  /\ caller' = who
  /\ attempt' = 0
  /\ IF env = "1"
     THEN /\ warnings' = warnings + 1
          /\ insecureTlsNoticeShown' = TRUE
          /\ tlsRejectOff' = TRUE
     ELSE UNCHANGED <<warnings, insecureTlsNoticeShown, tlsRejectOff>>
  /\ responses' = <<>>
  /\ backoffs' = <<>>
  /\ pc' = "rateLimit"
  /\ UNCHANGED <<now, lastRequestTime, reqLog, slow>>

\* lines 299-304: maybeEnableInsecureTls() and the start of the loop
FetchEnter(who) ==
  /\ caller' = who
  /\ attempt' = 0
  /\ IF env = "1"
     THEN /\ warnings' = IF insecureTlsNoticeShown THEN warnings ELSE warnings + 1
          /\ insecureTlsNoticeShown' = TRUE
          /\ tlsRejectOff' = TRUE
     ELSE UNCHANGED <<warnings, insecureTlsNoticeShown, tlsRejectOff>>
  /\ responses' = <<>>
  /\ backoffs' = <<>>
  /\ pc' = "rateLimit"
  /\ UNCHANGED <<now, lastRequestTime, reqLog, slow>>

\* lines 320-347 of runIngestionWithRetries up to the first ingestLaw call
StartRun(ls) ==
  /\ laws' = ls
  /\ pending' = ls
  /\ round' = 1
  /\ idx' = 0
  /\ roundResults' = <<>>
  /\ allResults' = EmptyMap
  /\ pc' = IF ls = <<>> THEN "finish" ELSE "ingest"

\* main, curated: parseArgs .. buildLawList .. the start of the first round
MainCurated ==
  /\ pc = "main"
  /\ ~args.fullLaws
  /\ seedDir' = IF args.append THEN seedDir ELSE clearSeedDirectory(seedDir)
  /\ StartRun(SliceLaws(Catalog, args.start, args.limit))
  /\ UNCHANGED <<args, env, result, results, exitCode, sourceDir, history, thrown, faults>>
  /\ UNCHANGED fetchVars
  /\ UNCHANGED parserVars
  /\ UNCHANGED dynamic

\* main, --full-laws: parseArgs .. fetchFullLawIndex .. the first rateLimit
MainFull ==
  /\ pc = "main"
  /\ args.fullLaws
  /\ seedDir' = IF args.append THEN seedDir ELSE clearSeedDirectory(seedDir)
  /\ FetchEnter("index")
  /\ UNCHANGED <<args, env, sourceDir, faults>>
  /\ UNCHANGED loopVars
  /\ UNCHANGED parserVars
  /\ UNCHANGED dynamic

\* a faulty variant: the limiter never sleeps
SleepNever(elapsed) == 0

\* rateLimit, lines 278-281: how long the limiter sleeps
SleepFor(elapsed) == IF elapsed < MIN_DELAY_MS THEN MIN_DELAY_MS - elapsed ELSE 0

\* rateLimit(): sleep what is missing to MIN_DELAY_MS, then stamp
rateLimit ==
  /\ pc = "rateLimit"
  /\ now' = now + SleepFor(now - lastRequestTime)
  /\ lastRequestTime' = now'
  /\ reqLog' = [n |-> reqLog.n + 1,
                docs |-> IF caller = "law" THEN reqLog.docs + 1 ELSE reqLog.docs,
                url |-> CurrentUrl, prevUrl |-> reqLog.url,
                stamp |-> now', prevStamp |-> lastRequestTime]
  /\ pc' = "request"
  /\ UNCHANGED <<args, env, caller, attempt, insecureTlsNoticeShown, tlsRejectOff, warnings,
                 responses, backoffs, slow, faults>>
  /\ UNCHANGED loopVars
  /\ UNCHANGED dirVars
  /\ UNCHANGED parserVars
  /\ UNCHANGED dynamic

\* the time a request takes: slow' counts the slow ones
Took(d) ==
  /\ d \in {0, SlowMs}
  /\ d = SlowMs => slow < MaxSlow
  /\ slow' = IF d = SlowMs THEN slow + 1 ELSE slow

\* a faulty variant: a transient status is retried whatever the attempt
FetchRetryTransientAlways ==
  /\ pc = "request"
  /\ faults < MaxFaults
  /\ \E status \in Statuses : \E d \in {0, SlowMs} :
       /\ IsTransient(status)
       /\ Took(d)
       /\ responses' = Append(responses, status)
       /\ backoffs' = Append(backoffs, Backoff(attempt))
       /\ now' = now + d + Backoff(attempt)
  /\ attempt' = attempt + 1
  /\ faults' = faults + 1
  /\ pc' = "rateLimit"
  /\ UNCHANGED <<args, env, caller, lastRequestTime, insecureTlsNoticeShown, tlsRejectOff,
                 warnings, reqLog>>
  /\ UNCHANGED loopVars
  /\ UNCHANGED dirVars
  /\ UNCHANGED parserVars
  /\ UNCHANGED dynamic

\* lines 320-325: a transient status with attempts left: back off and go on
FetchRetryTransient ==
  /\ pc = "request"
  /\ faults < MaxFaults
  /\ attempt < maxRetries
  /\ \E status \in Statuses : \E d \in {0, SlowMs} :
       /\ IsTransient(status)
       /\ Took(d)
       /\ responses' = Append(responses, status)
       /\ backoffs' = Append(backoffs, Backoff(attempt))
       /\ now' = now + d + Backoff(attempt)
  /\ attempt' = attempt + 1
  /\ faults' = faults + 1
  /\ pc' = "rateLimit"
  /\ UNCHANGED <<args, env, caller, lastRequestTime, insecureTlsNoticeShown, tlsRejectOff,
                 warnings, reqLog>>
  /\ UNCHANGED loopVars
  /\ UNCHANGED dirVars
  /\ UNCHANGED parserVars
  /\ UNCHANGED dynamic

\* lines 333-339: fetch() rejected with attempts left: back off and go on
FetchRetryNetwork ==
  /\ pc = "request"
  /\ faults < MaxFaults
  /\ attempt < maxRetries
  /\ \E d \in {0, SlowMs} :
       /\ Took(d)
       /\ now' = now + d + Backoff(attempt)
  /\ responses' = Append(responses, NetworkError)
  /\ backoffs' = Append(backoffs, Backoff(attempt))
  /\ attempt' = attempt + 1
  /\ faults' = faults + 1
  /\ pc' = "rateLimit"
  /\ UNCHANGED <<args, env, caller, lastRequestTime, insecureTlsNoticeShown, tlsRejectOff,
                 warnings, reqLog>>
  /\ UNCHANGED loopVars
  /\ UNCHANGED dirVars
  /\ UNCHANGED parserVars
  /\ UNCHANGED dynamic

\* a faulty variant: every response is returned, whatever the attempt
ReturnedAtOnce(status) == TRUE

\* line 320 negated: the response is returned to the caller
Returned(status) == ~(IsTransient(status) /\ attempt < maxRetries)

\* the identifiers of the laws of the model
LawIds ==
  {TARGET_LAWS[k].id : k \in 1..Len(TARGET_LAWS)}
    \cup {"co-ley-1388-2010", "co-ley-1388-2010-i39668", "co-ley-i4276"}

\* parseNormaHtml(html, law.id) of every page and law of the model, worked out once
ParsedPages ==
  {[page |-> page, id |-> id, out |-> parseNormaHtml(PageHtml(page), id)] :
     page \in Snapshots, id \in LawIds}

ParsedPage(page, id) == (CHOOSE r \in ParsedPages : r.page = page /\ r.id = id).out

\* a record file with nothing in it
EmptyRecord == [id |-> "", provisions |-> 0]

\* a write that throws before the file is opened: the directory is as it was
FailedWriteNothing(dir, file, empty) == {dir}

\* fs.writeFileSync(path, data) that throws: the file is opened with flag 'w'
\* (created, or cut to nothing) and then written, so the directory is as it
\* was when the opening failed and holds the file, empty, when the writing did
FailedWrite(dir, file, empty) == {dir, (file :> empty) @@ dir}

\* ingestLaw, lines 253-261: parse the page and save the record
ParseAndSave(law, act, seedFails) ==
      IF act.threw
      THEN /\ ~seedFails
           /\ thrown' = act.msg
           /\ result' = FailedResult(law, act.msg)
           /\ UNCHANGED seedDir
      ELSE IF seedFails
      THEN /\ thrown' = SeedWriteMsg
           /\ result' = FailedResult(law, SeedWriteMsg)
           /\ seedDir' \in FailedWrite(seedDir, law.fileName, EmptyRecord)
      ELSE /\ thrown' = ""
           /\ result' = OkResult(law, Len(act.val.provisions))
           /\ seedDir' = (law.fileName :> [id |-> act.val.id,
                                           provisions |-> Len(act.val.provisions)])
                         @@ seedDir

\* writeFileSync failing costs one fault
WriteFaults(snapFails, seedFails) ==
  (IF snapFails THEN 1 ELSE 0) + (IF seedFails THEN 1 ELSE 0)

\* ingestLaw, lines 238-240 and 253-261: the snapshot is reused, nothing is fetched
IngestReuse ==
  /\ pc = "ingest"
  /\ args.skipFetch
  /\ SourceFile(pending[idx + 1]) \in DOMAIN sourceDir
  /\ sourceDir[SourceFile(pending[idx + 1])] # "blank"
  /\ \E seedFails \in BOOLEAN :
       /\ faults + WriteFaults(FALSE, seedFails) <= MaxFaults
       /\ faults' = faults + WriteFaults(FALSE, seedFails)
       /\ ParseAndSave(pending[idx + 1],
                       ParsedPage(sourceDir[SourceFile(pending[idx + 1])], pending[idx + 1].id),
                       seedFails)
  /\ pc' = "record"
  /\ UNCHANGED <<args, env, laws, pending, round, idx, roundResults, allResults, results,
                 exitCode, history, sourceDir>>
  /\ UNCHANGED fetchVars
  /\ UNCHANGED parserVars
  /\ UNCHANGED dynamic

\* ingestLaw, lines 238-241: fetchNormaHtml(law.portalId) is called
IngestFetch ==
  /\ pc = "ingest"
  /\ ~ /\ args.skipFetch
       /\ SourceFile(pending[idx + 1]) \in DOMAIN sourceDir
       /\ sourceDir[SourceFile(pending[idx + 1])] # "blank"
  /\ FetchEnter("law")
  /\ UNCHANGED <<args, env, faults>>
  /\ UNCHANGED loopVars
  /\ UNCHANGED dirVars
  /\ UNCHANGED parserVars
  /\ UNCHANGED dynamic

\* a faulty variant: the body of a response other than 200 is saved as the snapshot
LawFetchFailedSaves ==
  /\ pc = "request"
  /\ caller = "law"
  /\ faults < MaxFaults
  /\ \E status \in Statuses \ {200} : \E d \in {0, SlowMs} :
       /\ Returned(status)
       /\ Took(d)
       /\ now' = now + d
       /\ responses' = Append(responses, status)
       /\ result' = FailedResult(pending[idx + 1], HttpError(status))
  /\ thrown' = ""
  /\ faults' = faults + 1
  /\ pc' = "record"
  /\ sourceDir' = (SourceFile(pending[idx + 1]) :> "blank") @@ sourceDir
  /\ UNCHANGED <<args, env, laws, pending, round, idx, roundResults, allResults, results,
                 exitCode, history, caller, attempt, lastRequestTime,
                 insecureTlsNoticeShown, tlsRejectOff, warnings, reqLog, backoffs>>
  /\ UNCHANGED seedDir
  /\ UNCHANGED parserVars
  /\ UNCHANGED dynamic

\* fetchWithRateLimit returns a status other than 200 to ingestLaw, lines 242-248
LawFetchFailed ==
  /\ pc = "request"
  /\ caller = "law"
  /\ faults < MaxFaults
  /\ \E status \in Statuses \ {200} : \E d \in {0, SlowMs} :
       /\ Returned(status)
       /\ Took(d)
       /\ now' = now + d
       /\ responses' = Append(responses, status)
       /\ result' = FailedResult(pending[idx + 1], HttpError(status))
  /\ thrown' = ""
  /\ faults' = faults + 1
  /\ pc' = "record"
  /\ UNCHANGED <<args, env, laws, pending, round, idx, roundResults, allResults, results,
                 exitCode, history, caller, attempt, lastRequestTime,
                 insecureTlsNoticeShown, tlsRejectOff, warnings, reqLog, backoffs>>
  /\ UNCHANGED dirVars
  /\ UNCHANGED parserVars
  /\ UNCHANGED dynamic

\* fetchWithRateLimit returns status 200 to ingestLaw, lines 249-261
LawFetchOk ==
  /\ pc = "request"
  /\ caller = "law"
  /\ \E body \in Pages : \E d \in {0, SlowMs} : \E snapFails, seedFails \in BOOLEAN :
       /\ Took(d)
       /\ now' = now + d
       /\ faults + WriteFaults(snapFails, seedFails) <= MaxFaults
       /\ faults' = faults + WriteFaults(snapFails, seedFails)
       /\ IF snapFails
          THEN /\ ~seedFails
               /\ thrown' = SnapshotWriteMsg
               /\ result' = FailedResult(pending[idx + 1], SnapshotWriteMsg)
               /\ sourceDir' \in FailedWrite(sourceDir, SourceFile(pending[idx + 1]), "blank")
               /\ UNCHANGED seedDir
          ELSE /\ sourceDir' = (SourceFile(pending[idx + 1]) :> body) @@ sourceDir
               /\ ParseAndSave(pending[idx + 1], ParsedPage(body, pending[idx + 1].id), seedFails)
  /\ responses' = Append(responses, 200)
  /\ pc' = "record"
  /\ UNCHANGED <<args, env, laws, pending, round, idx, roundResults, allResults, results,
                 exitCode, history, caller, attempt, lastRequestTime,
                 insecureTlsNoticeShown, tlsRejectOff, warnings, reqLog, backoffs>>
  /\ UNCHANGED parserVars
  /\ UNCHANGED dynamic

\* lines 341-342: fetch() rejected on the last attempt; ingestLaw catches
LawFetchThrow ==
  /\ pc = "request"
  /\ caller = "law"
  /\ faults < MaxFaults
  /\ attempt >= maxRetries
  /\ \E d \in {0, SlowMs} :
       /\ Took(d)
       /\ now' = now + d
  /\ responses' = Append(responses, NetworkError)
  /\ thrown' = FetchFailedMsg
  /\ result' = FailedResult(pending[idx + 1], FetchFailedMsg)
  /\ faults' = faults + 1
  /\ pc' = "record"
  /\ UNCHANGED <<args, env, laws, pending, round, idx, roundResults, allResults, results,
                 exitCode, history, caller, attempt, lastRequestTime,
                 insecureTlsNoticeShown, tlsRejectOff, warnings, reqLog, backoffs>>
  /\ UNCHANGED dirVars
  /\ UNCHANGED parserVars
  /\ UNCHANGED dynamic

\* a faulty variant: when the discovery fails the run goes on with TARGET_LAWS
FallBackToCurated ==
  /\ exitCode' = exitCode
  /\ StartRun(Catalog)
  /\ UNCHANGED <<result, results, history, thrown>>

\* main().catch: console.error and process.exit(1)
Fatal ==
  /\ exitCode' = 1
  /\ pc' = "fatal"
  /\ UNCHANGED <<laws, pending, round, idx, roundResults, allResults, result, results,
                 history, thrown>>

\* html.match(/Número de documentos encontrados:\s*([0-9.]+)/i): the digits
\* and dots captured on the search page, NoCountMatch when nothing matches
NoCountMatch == <<>>

SearchCountMatch(page) ==
  IF page = "index" THEN <<"1", ".", "6", "6", "3">> ELSE NoCountMatch

\* the null of line 124, apart from every count parseInt can read
Null == -1

\* Number.parseInt(t, 10) of a run of digits
RECURSIVE ParseDigits(_, _)
ParseDigits(t, acc) ==
  IF t = <<>> THEN acc
  ELSE ParseDigits(Tail(t), 10 * acc + (CHOOSE n \in 0..9 : DigitSeq[n + 1] = Head(t)))

\* parseSearchCount, lines 122-126
parseSearchCount(page) ==
  IF SearchCountMatch(page) = NoCountMatch THEN Null
  ELSE ParseDigits(SelectSeq(SearchCountMatch(page), LAMBDA c : c # "."), 0)

\* the object written to law-index-tipdoc18.json, lines 198-210
IndexJson(page) ==
  [source_count |-> parseSearchCount(page),
   extracted_count |-> Len(extractLawIndexFromSearchHtml(page))]

IndexHtmlFile == "law-index-tipdoc18.html"

IndexJsonFile == "law-index-tipdoc18.json"

\* fetchFullLawIndex, lines 190-192: a status other than 200 is fatal
IndexFetchFailed ==
  /\ pc = "request"
  /\ caller = "index"
  /\ faults < MaxFaults
  /\ \E status \in Statuses \ {200} : \E d \in {0, SlowMs} :
       /\ Returned(status)
       /\ Took(d)
       /\ now' = now + d
       /\ responses' = Append(responses, status)
  /\ faults' = faults + 1
  /\ Fatal
  /\ UNCHANGED <<args, env, caller, attempt, lastRequestTime, insecureTlsNoticeShown,
                 tlsRejectOff, warnings, reqLog, backoffs>>
  /\ UNCHANGED dirVars
  /\ UNCHANGED parserVars
  /\ UNCHANGED dynamic

\* lines 341-342 under fetchFullLawIndex: the rejection is fatal
IndexFetchThrow ==
  /\ pc = "request"
  /\ caller = "index"
  /\ faults < MaxFaults
  /\ attempt >= maxRetries
  /\ \E d \in {0, SlowMs} :
       /\ Took(d)
       /\ now' = now + d
  /\ responses' = Append(responses, NetworkError)
  /\ faults' = faults + 1
  /\ Fatal
  /\ UNCHANGED <<args, env, caller, attempt, lastRequestTime, insecureTlsNoticeShown,
                 tlsRejectOff, warnings, reqLog, backoffs>>
  /\ UNCHANGED dirVars
  /\ UNCHANGED parserVars
  /\ UNCHANGED dynamic

\* fetchFullLawIndex, lines 194-212, and buildLawList, lines 223-231
IndexFetchOk ==
  /\ pc = "request"
  /\ caller = "index"
  /\ \E body \in IndexPages : \E d \in {0, SlowMs} :
       /\ Took(d)
       /\ now' = now + d
       /\ sourceDir' = (IndexHtmlFile :> body) @@ (IndexJsonFile :> IndexJson(body)) @@ sourceDir
       /\ StartRun(SliceLaws(buildDynamicTargetLaws(extractLawIndexFromSearchHtml(body)),
                             args.start, args.limit))
  /\ responses' = Append(responses, 200)
  /\ UNCHANGED <<args, env, result, results, exitCode, history, thrown, seedDir, faults, caller,
                 attempt, lastRequestTime, insecureTlsNoticeShown, tlsRejectOff, warnings,
                 reqLog, backoffs>>
  /\ UNCHANGED parserVars
  /\ UNCHANGED dynamic

\* runIngestionWithRetries, lines 333-344: the result is recorded; the locals
\* of the fetch call that ended are gone
Record ==
  /\ pc = "record"
  /\ roundResults' = Append(roundResults, result)
  /\ allResults' = (pending[idx + 1].id :> result) @@ allResults
  /\ history' = Append(history, [round |-> round, law |-> pending[idx + 1].id,
                                 status |-> result.status])
  /\ idx' = idx + 1
  /\ pc' = IF idx + 1 < Len(pending) THEN "ingest" ELSE "roundEnd"
  /\ caller' = ""
  /\ attempt' = 0
  /\ responses' = <<>>
  /\ backoffs' = <<>>
  /\ thrown' = ""
  /\ UNCHANGED <<args, env, laws, pending, round, result, results, exitCode, faults, now,
                 lastRequestTime, insecureTlsNoticeShown, tlsRejectOff, warnings, reqLog,
                 slow>>
  /\ UNCHANGED dirVars
  /\ UNCHANGED parserVars
  /\ UNCHANGED dynamic

maxRounds == 3

\* a faulty variant: every law of the round is retried
EveryLaw(rs) == [k \in 1..Len(rs) |-> rs[k].law]

\* roundResults.filter(r => r.status === 'failed').map(r => r.law)
RECURSIVE FailedLaws(_)
FailedLaws(rs) ==
  IF rs = <<>> THEN <<>>
  ELSE (IF Head(rs).status = "failed" THEN <<Head(rs).law>> ELSE <<>>)
       \o FailedLaws(Tail(rs))

\* runIngestionWithRetries, lines 346 and 324-328: the next round, or the end
RoundEnd ==
  /\ pc = "roundEnd"
  /\ pending' = FailedLaws(roundResults)
  /\ round' = round + 1
  /\ idx' = 0
  /\ IF round + 1 <= maxRounds /\ pending' # <<>>
     THEN /\ roundResults' = <<>>
          /\ pc' = "ingest"
     ELSE /\ UNCHANGED roundResults
          /\ pc' = "finish"
  /\ UNCHANGED <<args, env, laws, allResults, result, results, exitCode, history, thrown,
                 faults>>
  /\ UNCHANGED fetchVars
  /\ UNCHANGED dirVars
  /\ UNCHANGED parserVars
  /\ UNCHANGED dynamic

\* a faulty variant: the rows of the entries that failed are left out
RECURSIVE CollectSucceeded(_, _)
CollectSucceeded(ls, all) ==
  IF ls = <<>> THEN <<>>
  ELSE (IF Head(ls).id \in DOMAIN all /\ all[Head(ls).id].status = "ok"
        THEN <<all[Head(ls).id]>> ELSE <<>>)
       \o CollectSucceeded(Tail(ls), all)

\* laws.map(law => allResults.get(law.id)).filter(Boolean)
RECURSIVE CollectResults(_, _)
CollectResults(ls, all) ==
  IF ls = <<>> THEN <<>>
  ELSE (IF Head(ls).id \in DOMAIN all THEN <<all[Head(ls).id]>> ELSE <<>>)
       \o CollectResults(Tail(ls), all)

\* a faulty variant: every result has to be a failure
EveryFailed(rs) == \A k \in 1..Len(rs) : rs[k].status = "failed"

\* main, line 367: results.some(r => r.status === 'failed')
SomeFailed(rs) == \E k \in 1..Len(rs) : rs[k].status = "failed"

\* printResults, lines 293-305: the counts of the summary
printResults(rs) ==
  [processed |-> Len(rs),
   ok |-> Cardinality({k \in 1..Len(rs) : rs[k].status = "ok"}),
   failed |-> Cardinality({k \in 1..Len(rs) : rs[k].status = "failed"})]

\* runIngestionWithRetries, lines 349-351, and main, lines 365-369
Finish ==
  /\ pc = "finish"
  /\ results' = CollectResults(laws, allResults)
  /\ exitCode' = IF SomeFailed(results') THEN 1 ELSE exitCode
  /\ pc' = "done"
  /\ UNCHANGED <<args, env, laws, pending, round, idx, roundResults, allResults, result,
                 history, thrown, faults>>
  /\ UNCHANGED fetchVars
  /\ UNCHANGED dirVars
  /\ UNCHANGED parserVars
  /\ UNCHANGED dynamic

(***************************************************************************)
(* The specification of a run.                                             *)
(***************************************************************************)
\* what SOURCE_DIR and SEED_DIR hold before the run
StaleSeed == [id |-> "stale", provisions |-> 0]

StaleSeedDir ==
  (".gitkeep" :> StaleSeed) @@ ("old.json" :> StaleSeed) @@ (Catalog[1].fileName :> StaleSeed)
    @@ (Catalog[2].fileName :> StaleSeed)

Args(limit, start, skipFetch, fullLaws, append) ==
  [limit |-> limit, start |-> start, skipFetch |-> skipFetch, fullLaws |-> fullLaws,
   append |-> append]

\* the numerals of the command lines of the model and what
\* Number.parseInt(a, 10) reads from them
Numerals ==
  { <<"-1", 0 - 1>>, <<"0", 0>>, <<"1", 1>>, <<"2", 2>>, <<"3", 3>>, <<"4", 4>>, <<"9", 9>>,
    <<"10", 10>>, <<"11", 11>> }

ArgNumber(a) == (CHOOSE nm \in Numerals : nm[1] = a)[2]

\* the for loop of parseArgs from position i on, acc holding the locals; an
\* option that wants a value and is the last word is passed over
RECURSIVE parseArgsLoop(_, _, _)
parseArgsLoop(argv, i, acc) ==
  IF i > Len(argv) THEN acc
  ELSE IF argv[i] = "--limit" /\ i < Len(argv)
    THEN parseArgsLoop(argv, i + 2, [acc EXCEPT !.limit = <<ArgNumber(argv[i + 1])>>])
  ELSE IF argv[i] = "--skip-fetch"
    THEN parseArgsLoop(argv, i + 1, [acc EXCEPT !.skipFetch = TRUE])
  ELSE IF argv[i] = "--full-laws"
    THEN parseArgsLoop(argv, i + 1, [acc EXCEPT !.fullLaws = TRUE])
  ELSE IF argv[i] = "--start" /\ i < Len(argv)
    THEN parseArgsLoop(argv, i + 2,
                       [acc EXCEPT !.start = IF ArgNumber(argv[i + 1]) > 0
                                             THEN ArgNumber(argv[i + 1]) ELSE 0])
  ELSE IF argv[i] = "--append"
    THEN parseArgsLoop(argv, i + 1, [acc EXCEPT !.append = TRUE])
  ELSE parseArgsLoop(argv, i + 1, acc)

\* parseArgs, lines 54-88, of the words after the script name
parseArgs(argv) == parseArgsLoop(argv, 1, Args(NoLimit, 0, FALSE, FALSE, FALSE))

\* the command lines, environments and directories the runs of the model start from
RunConfigs ==
  { [args |-> parseArgs(<<>>), env |-> "",
     sourceDir |-> EmptyMap, seedDir |-> StaleSeedDir],
    [args |-> parseArgs(<<"--limit", "1", "--start", "1", "--append">>), env |-> "1",
     sourceDir |-> EmptyMap, seedDir |-> StaleSeedDir],
    [args |-> parseArgs(<<"--skip-fetch">>), env |-> "true",
     sourceDir |-> (Catalog[1].id :> "nocontainer") @@ (Catalog[2].id :> "blank"),
     seedDir |-> EmptyMap],
    [args |-> parseArgs(<<"--full-laws", "--limit", "1">>), env |-> "1",
     sourceDir |-> EmptyMap, seedDir |-> EmptyMap] }

Init ==
  /\ ParserIdle
  /\ \E cfg \in RunConfigs :
       /\ args = cfg.args
       /\ env = cfg.env
       /\ sourceDir = cfg.sourceDir
       /\ seedDir = cfg.seedDir
  /\ pc = "main"
  /\ laws = <<>>
  /\ pending = <<>>
  /\ round = 0
  /\ idx = 0
  /\ roundResults = <<>>
  /\ allResults = EmptyMap
  /\ result = NoResult
  /\ results = <<>>
  /\ exitCode = 0
  /\ caller = ""
  /\ attempt = 0
  /\ now = ProcessStart
  /\ lastRequestTime = 0
  /\ insecureTlsNoticeShown = FALSE
  /\ tlsRejectOff = FALSE
  /\ warnings = 0
  /\ history = <<>>
  /\ thrown = ""
  /\ reqLog = NoRequest
  /\ responses = <<>>
  /\ backoffs = <<>>
  /\ slow = 0
  /\ faults = 0

Next ==
  \/ MainCurated
  \/ MainFull
  \/ rateLimit
  \/ FetchRetryTransient
  \/ FetchRetryNetwork
  \/ IngestReuse
  \/ IngestFetch
  \/ LawFetchFailed
  \/ LawFetchOk
  \/ LawFetchThrow
  \/ IndexFetchFailed
  \/ IndexFetchThrow
  \/ IndexFetchOk
  \/ Record
  \/ RoundEnd
  \/ Finish

Spec == Init /\ [][Next]_vars

(***************************************************************************)
(* Properties of the run (specification Spec).                             *)
(***************************************************************************)
\* the law ids ingestLaw was called for in round r, in the order of the calls
AttemptsOf(r) ==
  LET calls == SelectSeq(history, LAMBDA h : h.round = r)
  IN  [k \in 1..Len(calls) |-> calls[k].law]

\* the law ids whose call of round r ended 'failed', in the order of the calls
FailuresOf(r) ==
  LET calls == SelectSeq(history, LAMBDA h : h.round = r /\ h.status = "failed")
  IN  [k \in 1..Len(calls) |-> calls[k].law]

IsPrefix(a, b) == Len(a) <= Len(b) /\ a = SubSeq(b, 1, Len(a))

\* the status of the last call for the law id
LastStatus(id) ==
  history[MaxOf({k \in 1..Len(history) : history[k].law = id})].status

\* C1: at most 3 rounds; round 1 attempts the list in order; round r+1 attempts
\* exactly the failures of round r in the same order; an 'ok' entry is never
\* attempted again; the recorded outcome of an entry is that of its last attempt.
C1_RoundsRetryFailures ==
  /\ \A k \in 1..Len(history) : history[k].round \in 1..3
  /\ \A k, l \in 1..Len(history) :
       k < l => /\ history[k].round <= history[l].round
                /\ history[k].law = history[l].law =>
                     history[k].status = "failed" /\ history[k].round < history[l].round
  /\ IsPrefix(AttemptsOf(1), [k \in 1..Len(laws) |-> laws[k].id])
  /\ \A r \in 1..2 : IsPrefix(AttemptsOf(r + 1), FailuresOf(r))
  /\ \A r \in 2..3 : AttemptsOf(r) # <<>> =>
       /\ AttemptsOf(1) = [k \in 1..Len(laws) |-> laws[k].id]
       /\ \A q \in 2..(r - 1) : AttemptsOf(q) = FailuresOf(q - 1)
  /\ \A id \in DOMAIN allResults : allResults[id].status = LastStatus(id)
  /\ pc = "done" =>
       /\ AttemptsOf(1) = [k \in 1..Len(laws) |-> laws[k].id]
       /\ \A r \in 1..2 : AttemptsOf(r + 1) = FailuresOf(r)
       /\ Len(results) = Len(laws)
       /\ \A k \in 1..Len(laws) :
            /\ results[k].law = laws[k]
            /\ results[k].status = LastStatus(laws[k].id)

\* C1 happens: the first law fails twice and is attempted a third time, the
\* second law is done in round 1
C1_Witness ==
  /\ pc = "done"
  /\ Len(laws) = 2
  /\ AttemptsOf(1) = <<laws[1].id, laws[2].id>>
  /\ FailuresOf(1) = <<laws[1].id>>
  /\ AttemptsOf(3) = <<laws[1].id>>
  /\ results[1].status = "ok"

\* whether a response of the current fetch call is one the code retries on
IsRetryable(response) == response = 429 \/ response >= 500 \/ response = NetworkError

\* the fetch call the log is about has returned or thrown
FetchEnded == pc \notin {"rateLimit", "request"}

\* C2: the request of attempt index k-1 is retried exactly when its response is
\* 429, >= 500 or a transport failure and k-1 is below 3; the wait after it is
\* 2^k seconds and the next request starts no sooner; any other response ends
\* the call with no wait.
C2_RetryAndBackoff ==
  /\ \A k \in 1..Len(responses) :
       (k < Len(responses) \/ ~FetchEnded) <=> (IsRetryable(responses[k]) /\ k - 1 < 3)
  /\ Len(backoffs) = IF FetchEnded /\ responses # <<>> THEN Len(responses) - 1
                     ELSE Len(responses)
  /\ \A k \in 1..Len(backoffs) : backoffs[k] = (2 ^ k) * 1000
  /\ pc = "request" /\ Len(backoffs) >= 1 =>
       reqLog.stamp - reqLog.prevStamp >= (2 ^ Len(backoffs)) * 1000

\* C2 happens: three retries (a 5xx, a transport failure, a 429) and a 200
C2_Witness ==
  /\ pc = "record"
  /\ responses = <<500, NetworkError, 429, 200>>
  /\ backoffs = <<2000, 4000, 8000>>

FourTimes429 == <<429, 429, 429, 429>>

\* C3 as stated: a fetch whose first three attempts received 429 ends as a
\* failed attempt of the entry.
C3_ThreeTimes429Fails ==
  (pc = "record" /\ Len(responses) >= 3 /\ SubSeq(responses, 1, 3) = <<429, 429, 429>>)
    => result.status = "failed"

\* C3, amended: a fetch makes at most four requests (maxRetries + 1); one that
\* receives 429 on all four returns the 429 response, ingestLaw records a
\* failed result 'HTTP 429' for the entry, and the run goes on with the next
\* entry or the end of the round.
C3_FourTimes429Fails ==
  [][ /\ Len(responses') <= 4
      /\ pc' = "record" /\ responses' = FourTimes429 =>
           /\ result' = [law |-> pending[idx + 1], status |-> "failed", provisions |-> 0,
                         error |-> "HTTP 429"]
           /\ thrown' = ""
           /\ exitCode' = 0
      /\ pc = "record" /\ responses = FourTimes429 =>
           /\ roundResults' = Append(roundResults, result)
           /\ pending' = pending
           /\ idx' = idx + 1
           /\ pc' = IF idx' < Len(pending) THEN "ingest" ELSE "roundEnd"
    ]_vars

\* C3 happens: the first of two entries received 429 four times
C3_Witness ==
  /\ pc = "record"
  /\ responses = FourTimes429
  /\ Len(pending) = 2
  /\ idx = 0

\* C4: every request but the first starts at least 1200 ms after the limiter
\* stamp of the request before it, whatever the two URLs are; the stamp the
\* limiter holds is the stamp of the last request.
C4_MinimumInterval ==
  /\ reqLog.n >= 2 => reqLog.stamp - reqLog.prevStamp >= 1200
  /\ reqLog.n >= 1 => lastRequestTime = reqLog.stamp /\ now >= reqLog.stamp

\* C4 happens: a document request exactly 1200 ms after the search request
C4_Witness ==
  /\ pc = "request"
  /\ reqLog.prevUrl = LAW_SEARCH_URL
  /\ reqLog.url[1] = "norma.php?i="
  /\ reqLog.stamp - reqLog.prevStamp = 1200

\* C5: when the run is over the exit code is nonzero if some final result is
\* 'failed' and zero if every one is 'ok'.
C5_ExitCode ==
  pc = "done" =>
    /\ (\E k \in 1..Len(results) : results[k].status = "failed") => exitCode # 0
    /\ (\A k \in 1..Len(results) : results[k].status = "ok") => exitCode = 0

\* C5 happens: one law is done, the other failed in every round
C5_Witness ==
  /\ pc = "done"
  /\ Len(results) = 2
  /\ results[1].status = "ok"
  /\ results[2].status = "failed"
  /\ exitCode = 1

\* C6: an exception raised in ingestLaw (fetching, writing the snapshot,
\* parsing, writing the record) ends the call with a 'failed' result carrying
\* its message, and the loop goes on with the next entry of the round.
C6_ExceptionsPerEntry ==
  [][ /\ thrown' # "" =>
           /\ pc' = "record"
           /\ result' = [law |-> pending[idx + 1], status |-> "failed", provisions |-> 0,
                         error |-> thrown']
           /\ exitCode' = 0
      /\ pc = "record" /\ thrown # "" =>
           /\ roundResults' = Append(roundResults, result)
           /\ pending' = pending
           /\ idx' = idx + 1
           /\ pc' = IF idx' < Len(pending) THEN "ingest" ELSE "roundEnd"
    ]_vars

\* C6 happens: parsing the first entry threw, and the second entry is
\* processed after it
C6_Witness ==
  /\ pc = "record"
  /\ idx = 1
  /\ Len(roundResults) = 1
  /\ roundResults[1].error = "Invalid code point"
  /\ result.status = "ok"

\* the entry ingestLaw is called for
CurrentLaw == pending[idx + 1]

\* what ingestLaw can return once parsing for law gave act: the outcome of the
\* parse, or the failure to write the record
ResultsOf(law, act) ==
  {IF act.threw THEN FailedResult(law, act.msg) ELSE OkResult(law, Len(act.val.provisions)),
   FailedResult(law, SeedWriteMsg)}

ParseResults(law, page) == ResultsOf(law, ParsedPage(page, law.id))

\* C13: when reuse is requested and the snapshot file of the entry exists,
\* ingestLaw makes no request and returns the outcome of parsing that snapshot;
\* in every other case it enters the fetch; and when the fetch returns status
\* 200 either the body is written as the snapshot and the result is the
\* outcome of parsing it, or the write fails and nothing is parsed or saved.
C13_ReuseOrFetch ==
  [][/\ (pc = "ingest" /\ args.skipFetch /\ SourceFile(CurrentLaw) \in DOMAIN sourceDir) =>
          /\ pc' = "record"
          /\ reqLog' = reqLog
          /\ sourceDir' = sourceDir
          /\ result' \in ParseResults(CurrentLaw, sourceDir[SourceFile(CurrentLaw)])
     /\ (pc = "ingest" /\ ~(args.skipFetch /\ SourceFile(CurrentLaw) \in DOMAIN sourceDir)) =>
          /\ pc' = "rateLimit"
          /\ caller' = "law"
     /\ (pc = "request" /\ caller = "law" /\ responses' = Append(responses, 200)) =>
          \/ /\ SourceFile(CurrentLaw) \in DOMAIN sourceDir'
             /\ result' \in ParseResults(CurrentLaw, sourceDir'[SourceFile(CurrentLaw)])
          \/ /\ result' = FailedResult(CurrentLaw, SnapshotWriteMsg)
             /\ sourceDir' \in FailedWrite(sourceDir, SourceFile(CurrentLaw), "blank")
             /\ UNCHANGED seedDir
    ]_vars

\* the ids of the entries ls are pairwise distinct
DistinctIds(ls) == \A k, l \in 1..Len(ls) : k # l => ls[k].id # ls[l].id

\* C14: when the ids of the entries are pairwise distinct, the run returns one
\* result per entry, in the order of the catalog, and the summary counts as
\* processed the number of entries, which is the succeeded plus the failed.
C14_OneResultPerEntry ==
  (pc = "done" /\ DistinctIds(laws)) =>
    /\ Len(results) = Len(laws)
    /\ \A k \in 1..Len(laws) : results[k].law = laws[k]
    /\ printResults(results).processed = Len(laws)
    /\ printResults(results).processed
         = printResults(results).ok + printResults(results).failed

\* C14 happens: of two entries the first succeeded in a later round than the
\* second failed for the first time, and the rows are in catalog order
C14_Witness ==
  /\ pc = "done"
  /\ Len(laws) = 2
  /\ DistinctIds(laws)
  /\ results[1].status = "ok"
  /\ results[2].status = "failed"
  /\ \E k \in 1..Len(history) : history[k].law = laws[1].id /\ history[k].status = "failed"

\* C15: without --append the step that leaves main() removes every .json file
\* the seed directory held, before any entry is processed or requested; with
\* --append no step removes a file, and a step changes a file only by writing
\* the record of the entry being processed under that entry's file name (the
\* whole record, or nothing of it when the write fails).
C15_SeedDirCleared ==
  [][/\ (pc = "main" /\ ~args.append) =>
          /\ \A f \in DOMAIN seedDir : IsJson(f) => f \notin DOMAIN seedDir'
          /\ history = <<>> /\ history' = <<>>
          /\ reqLog.n = 0 /\ reqLog'.n = 0
     /\ args.append =>
          \A f \in DOMAIN seedDir :
            /\ f \in DOMAIN seedDir'
            /\ seedDir'[f] # seedDir[f] =>
                 /\ pc \in {"ingest", "request"}
                 /\ f = CurrentLaw.fileName
                 /\ seedDir'[f] = EmptyRecord \/ seedDir'[f].id = CurrentLaw.id
    ]_vars

\* C15 happens: a run without --append has left main(), and of the four files
\* of the seed directory only the one that is no .json file is there
C15_Witness ==
  /\ ~args.append
  /\ pc = "ingest"
  /\ history = <<>>
  /\ DOMAIN seedDir = {".gitkeep"}

\* the step is the end of an ingestLaw call that parsed a page: the snapshot
\* was reused, or the fetch returned status 200 and the snapshot was written
ParsedInStep ==
  /\ pc' = "record"
  /\ \/ pc = "ingest"
     \/ /\ pc = "request"
        /\ responses' = Append(responses, 200)
        /\ thrown' # SnapshotWriteMsg

\* the page ingestLaw parsed in the step
PageOfStep == ParsedPage(sourceDir'[SourceFile(CurrentLaw)], CurrentLaw.id)

\* C18: when the page of an entry parses to zero provisions (and the record
\* can be written), ingestLaw returns 'ok' with a provision count of 0 and the
\* record is in the seed directory; and an entry is never attempted again
\* after an attempt that did not fail.
C18_ZeroProvisionsOk ==
  [][/\ (ParsedInStep /\ ~PageOfStep.threw /\ PageOfStep.val.provisions = <<>>
           /\ thrown' # SeedWriteMsg) =>
          /\ result'.status = "ok"
          /\ result'.provisions = 0
          /\ result'.law = CurrentLaw
          /\ CurrentLaw.fileName \in DOMAIN seedDir'
          /\ seedDir'[CurrentLaw.fileName] = [id |-> CurrentLaw.id, provisions |-> 0]
     /\ pc = "ingest" =>
          \A k \in 1..Len(history) :
            history[k].law = CurrentLaw.id => history[k].status = "failed"
    ]_vars

\* C18 happens: the run ended after a second round for the second entry, and
\* the first entry, whose page had no provisions, was attempted once and is 'ok'
C18_Witness ==
  /\ pc = "done"
  /\ Len(results) = 2
  /\ results[1].status = "ok"
  /\ results[1].provisions = 0
  /\ seedDir[laws[1].fileName] = [id |-> laws[1].id, provisions |-> 0]
  /\ Cardinality({k \in 1..Len(history) : history[k].law = laws[1].id}) = 1
  /\ Cardinality({k \in 1..Len(history) : history[k].law = laws[2].id}) > 1

\* the step is the one in which the fetch of fetchFullLawIndex settles
IndexConcluded == pc = "request" /\ caller = "index" /\ pc' # "rateLimit"

\* the discovery fetch ended with a status other than 200 or with the
\* rejection that follows the last transport retry
DiscoveryFailed == responses'[Len(responses')] # 200

\* the search page answered with status 200 carries no document count
CountMissing ==
  /\ responses'[Len(responses')] = 200
  /\ parseSearchCount(sourceDir'[IndexHtmlFile]) = Null

\* nothing of the catalog was ingested and no document was requested
NothingIngested ==
  /\ laws' = <<>>
  /\ pending' = <<>>
  /\ history' = <<>>
  /\ results' = <<>>
  /\ reqLog'.url = LAW_SEARCH_URL

\* a curated run has nothing to do with the search page
CuratedUnaffected ==
  ~args.fullLaws =>
    /\ caller' # "index"
    /\ reqLog'.url # LAW_SEARCH_URL
    /\ IndexHtmlFile \notin DOMAIN sourceDir'
    /\ pc' # "fatal"

\* C19 as stated: in a --full-laws run a failed discovery fetch, or a search
\* page without the document count, is fatal and nothing is ingested; a
\* curated run never fetches the search page.
C19_DiscoveryOrCountFatal ==
  [][/\ (IndexConcluded /\ (DiscoveryFailed \/ CountMissing)) =>
          (pc' = "fatal" /\ exitCode' = 1 /\ NothingIngested)
     /\ CuratedUnaffected
    ]_vars

\* C19, amended: in a --full-laws run a failed discovery fetch (a status other
\* than 200, or the rejection after the last transport retry) is fatal and
\* nothing is ingested; a search page answered with status 200 is used with or
\* without the document count: the run starts with the catalog built from its
\* entries; a curated run never fetches the search page.
C19_DiscoveryFetchFatal ==
  [][/\ (IndexConcluded /\ DiscoveryFailed) =>
          (pc' = "fatal" /\ exitCode' = 1 /\ NothingIngested)
     /\ (IndexConcluded /\ ~DiscoveryFailed) =>
          /\ pc' # "fatal"
          /\ exitCode' = 0
          /\ laws' = SliceLaws(buildDynamicTargetLaws(
                        extractLawIndexFromSearchHtml(sourceDir'[IndexHtmlFile])),
                        args.start, args.limit)
          /\ sourceDir'[IndexJsonFile].source_count = parseSearchCount(sourceDir'[IndexHtmlFile])
     /\ pc' = "fatal" => NothingIngested
     /\ CuratedUnaffected
    ]_vars

\* C19 happens: the discovery fetch failed and the run ended fatally with
\* nothing ingested
C19_Witness ==
  /\ pc = "fatal"
  /\ args.fullLaws
  /\ caller = "index"
  /\ responses # <<>>
  /\ responses[Len(responses)] # 200
  /\ exitCode = 1
  /\ history = <<>>

\* fetchWithRateLimit has been called at least once in the run
FetchCalled == reqLog.n > 0 \/ pc \in {"rateLimit", "request"}

\* C23: certificate validation is switched off only in a process whose
\* ALLOW_INSECURE_TLS is exactly '1', and only once a fetch has been called;
\* the warning has been logged once when a fetch has been called with the
\* toggle set, however many calls followed, and not at all otherwise.
C23_InsecureTlsOptIn ==
  /\ tlsRejectOff <=> (env = "1" /\ FetchCalled)
  /\ warnings = IF env = "1" /\ FetchCalled THEN 1 ELSE 0
  /\ insecureTlsNoticeShown <=> warnings = 1

\* C23 happens: with the toggle set, a third fetchWithRateLimit call has been
\* made and the warning has been logged once
C23_Witness ==
  /\ env = "1"
  /\ Len(history) >= 2
  /\ pc = "request"
  /\ tlsRejectOff
  /\ warnings = 1

\* the step ends a fetchWithRateLimit call made by ingestLaw
LawFetchEnds == pc = "request" /\ caller = "law" /\ pc' = "record"

\* what the last request of the call that ends in the step received
LastResponse == responses'[Len(responses')]

\* C26: a call that ends on a 429 or 5xx response does so on its last permitted
\* attempt, returns the response without throwing, and ingestLaw records
\* 'failed' with 'HTTP <status>'; the call throws exactly when its last
\* permitted attempt failed at transport level; the attempt index never passes
\* maxRetries, so the loop is never left through its condition and the throw
\* after it is not reached.
C26_LastAttemptReturnsStatus ==
  [][/\ attempt' <= maxRetries
     /\ (pc = "request" /\ pc' = "rateLimit") => (attempt < maxRetries /\ attempt' = attempt + 1)
     /\ LawFetchEnds =>
          /\ LastResponse \in {429, 500} =>
               /\ attempt = maxRetries
               /\ Len(responses') = maxRetries + 1
               /\ thrown' = ""
               /\ result'.status = "failed"
               /\ result'.error = IF LastResponse = 429 THEN "HTTP 429" ELSE "HTTP 500"
          /\ thrown' = FetchFailedMsg <=> LastResponse = NetworkError
          /\ LastResponse = NetworkError =>
               /\ attempt = maxRetries
               /\ result'.status = "failed"
               /\ result'.error = FetchFailedMsg
    ]_vars

\* C26 happens: after a 5xx, a transport failure and a 429 the fourth request
\* received a 5xx, which was returned and recorded as 'HTTP 500'
C26_Witness ==
  /\ pc = "record"
  /\ responses = <<500, NetworkError, 429, 500>>
  /\ result.status = "failed"
  /\ result.error = "HTTP 500"
  /\ thrown = ""

\* the file names of the entries ls are pairwise distinct
DistinctFileNames(ls) ==
  \A k, l \in 1..Len(ls) : k # l => ls[k].fileName # ls[l].fileName

\* the .json files of the seed directory
RecordFiles == {f \in DOMAIN seedDir : IsJson(f)}

\* the file names of the entries whose row of the returned results is 'ok'
OkFileNames ==
  {results[k].law.fileName : k \in {l \in 1..Len(results) : results[l].status = "ok"}}

\* C27: after a completed run without --append over entries with pairwise
\* distinct file names, the .json files of the seed directory are exactly the
\* file names of the entries whose final outcome is 'ok'; an entry whose every
\* attempt failed has no record file.
C27_RecordsAreOkEntries ==
  (pc = "done" /\ ~args.append /\ DistinctFileNames(laws)) =>
    RecordFiles = OkFileNames

\* the snapshot and the record of an entry in the two directories, <<>> when
\* the file is not there
SnapshotOf(dir, law) ==
  IF SourceFile(law) \in DOMAIN dir THEN <<dir[SourceFile(law)]>> ELSE <<>>

RecordOf(dir, law) ==
  IF law.fileName \in DOMAIN dir THEN <<dir[law.fileName]>> ELSE <<>>

\* C28: a step changes the snapshot of an entry only when it ends the fetch of
\* that entry with status 200, and the snapshot it writes is the body of that
\* response, the page the result of the step was parsed from; a step of the
\* fetch of an entry that receives another status, or no response, leaves
\* the snapshot and the record of the entry as they were.
C28_SnapshotOnlyAfter200 ==
  [][/\ \A k \in 1..Len(laws) :
          SnapshotOf(sourceDir', laws[k]) # SnapshotOf(sourceDir, laws[k]) =>
            /\ pc = "request" /\ caller = "law"
            /\ laws[k] = CurrentLaw
            /\ responses' = Append(responses, 200)
            /\ thrown' # SnapshotWriteMsg =>
                 /\ sourceDir'[SourceFile(CurrentLaw)] \in Pages
                 /\ result' \in ParseResults(CurrentLaw, sourceDir'[SourceFile(CurrentLaw)])
     /\ (pc = "request" /\ caller = "law" /\ responses' # Append(responses, 200)) =>
          /\ SnapshotOf(sourceDir', CurrentLaw) = SnapshotOf(sourceDir, CurrentLaw)
          /\ RecordOf(seedDir', CurrentLaw) = RecordOf(seedDir, CurrentLaw)
    ]_vars

\* C28 happens: the fetch of an entry came back with a status other than 200
\* in the second round, and the snapshot written in the first round and the
\* record the directory held before the run are there as they were
C28_Witness ==
  /\ pc = "record"
  /\ round = 2
  /\ responses # <<>>
  /\ responses[Len(responses)] \notin {200, NetworkError}
  /\ result.status = "failed"
  /\ SnapshotOf(sourceDir, CurrentLaw) = <<"good">>
  /\ RecordOf(seedDir, CurrentLaw) = <<StaleSeed>>

\* the requests the fetchWithRateLimit call in progress has issued: one per
\* response and failure received, and the one that is out
RequestsOfCall == Len(responses) + (IF pc = "request" THEN 1 ELSE 0)

\* the ingestLaw calls made for the entry with the identifier id, and the
\* ingestLaw calls made in all: the ones recorded and the one in progress
CallsFor(id) == Cardinality({k \in 1..Len(history) : history[k].law = id})

InIngestLaw ==
  IF pc = "record" \/ (pc \in {"rateLimit", "request"} /\ caller = "law") THEN 1 ELSE 0

AttemptsMade == Len(history) + InIngestLaw

\* C29: a fetchWithRateLimit call issues at most maxRetries + 1 requests, 4
\* with the default, so the answer to the last of them ends the call; no
\* entry is attempted more than 3 times; so the requests for documents are at
\* most maxRetries + 1 per attempt made, and at most 3 * n * (maxRetries + 1)
\* over a run of n entries.
C29_RequestsBounded ==
  /\ RequestsOfCall <= maxRetries + 1
  /\ maxRetries + 1 = 4
  /\ attempt <= maxRetries
  /\ \A k \in 1..Len(laws) : CallsFor(laws[k].id) <= 3
  /\ AttemptsMade <= 3 * Len(laws)
  /\ reqLog.docs <= AttemptsMade * (maxRetries + 1)
  /\ reqLog.docs <= 3 * Len(laws) * (maxRetries + 1)

\* C29 happens: the third attempt of the one entry of the run ended with its
\* fourth request, after two attempts of one request each
C29_Witness ==
  /\ pc = "record"
  /\ Len(laws) = 1
  /\ CallsFor(CurrentLaw.id) = 2
  /\ Len(responses) = maxRetries + 1
  /\ reqLog.docs = 6

(***************************************************************************)
(* Properties of the parser (specification SpecParser).                    *)
(***************************************************************************)
\* the provisions parseNormaHtml returned
Output == parsed.val.provisions

\* the indexes of the paragraphs ps that open an article
ArticleIndexes(ps) ==
  {i \in 1..Len(ps) : ~IsHeading(ps[i]) /\ ArticleMatch(ps[i]).matched}

\* the paragraphs of the article opened at index i: up to the next opening,
\* headings left out
BlockIndexes(ps, i) ==
  {j \in i..Len(ps) : /\ ~IsHeading(ps[j])
                      /\ \A k \in ArticleIndexes(ps) : k > i => j < k}

\* the body of the candidate the paragraph at index i opens
CandidateBody(ps, i) ==
  normalizeWhitespace(JoinBlocks(PickSeq(ps, BlockIndexes(ps, i))))

\* the normalized designator of the paragraph at index i
Designator(ps, i) == normalizeSection(ArticleMatch(ps[i]).group1)

\* ref is 'art' followed by s with every alphanumeric unit of s kept and every
\* maximal run of other units turned into one '-'
IsSlugOf(ref, s) ==
  LET alnum == Digits \cup LowerLetters
      runStart(i) == s[i] \notin alnum /\ (i = 1 \/ s[i - 1] \in alnum)
      pos(i) == Cardinality({j \in 1..i : s[j] \in alnum})
                  + Cardinality({j \in 1..i : runStart(j)})
  IN  /\ Len(ref) = 3 + (IF s = <<>> THEN 0 ELSE pos(Len(s)))
      /\ SubSeq(ref, 1, 3) = <<"a", "r", "t">>
      /\ \A i \in 1..Len(s) : ref[3 + pos(i)] = IF s[i] \in alnum THEN s[i] ELSE "-"

\* C7: parseNormaHtml returns a ParsedAct and never throws, whatever the HTML,
\* numeric and hexadecimal character references included.
C7_ParseNeverThrows == ppc # "threw" /\ ~parsed.threw

\* C8: no two returned provisions have the same section, and for every
\* candidate block the returned provision of its section is a candidate of
\* that section at least as long as it (the longest one).
C8_DedupKeepsLongest ==
  ppc = "done" =>
    /\ \A i, j \in 1..Len(Output) : i # j => Output[i].section # Output[j].section
    /\ \A i \in 1..Len(Output) : \E k \in 1..Len(seg.provisions) : Output[i] = seg.provisions[k]
    /\ \A k \in 1..Len(seg.provisions) : \E i \in 1..Len(Output) :
         /\ Output[i].section = seg.provisions[k].section
         /\ Len(Output[i].content) >= Len(seg.provisions[k].content)

\* C8 happens: a later candidate of a section is longer than an earlier one
C8_Witness ==
  /\ ppc = "done"
  /\ \E k, l \in 1..Len(seg.provisions) :
       /\ k < l
       /\ seg.provisions[k].section = seg.provisions[l].section
       /\ Len(seg.provisions[l].content) > Len(seg.provisions[k].content)
       /\ seg.provisions[l] \in {Output[i] : i \in 1..Len(Output)}

\* C9: every candidate pushed and every provision returned has a body of at
\* least 20 units, so a candidate with a shorter body is never emitted.
C9_BodyAtLeast20 ==
  /\ \A k \in 1..Len(seg.provisions) : Len(seg.provisions[k].content) >= 20
  /\ ppc = "done" => \A i \in 1..Len(Output) : Len(Output[i].content) >= 20

\* C9 happens: one article has a body of 19 units or less and is dropped, and
\* another with a body of exactly 20 units is returned
C9_Witness ==
  /\ ppc = "done"
  /\ \E i \in ArticleIndexes(paras) :
       /\ Len(CandidateBody(paras, i)) < 20
       /\ \A k \in 1..Len(Output) : Output[k].content # CandidateBody(paras, i)
  /\ \E k \in 1..Len(Output) : Len(Output[k].content) = 20

\* C10 as stated: every paragraph that opens an article has exactly one
\* returned provision (its section and its body), whose reference is the slug.
C10_OnePerOpening ==
  ppc = "done" =>
    \A i \in ArticleIndexes(paras) :
      /\ Cardinality({k \in 1..Len(Output) :
                        /\ Output[k].section = Designator(paras, i)
                        /\ Output[k].content = CandidateBody(paras, i)}) = 1
      /\ \A k \in 1..Len(Output) :
           Output[k].section = Designator(paras, i) =>
             IsSlugOf(Output[k].provision_ref, ToLowerCase(Designator(paras, i)))

\* C10, amended: every paragraph that opens an article whose body (with the
\* paragraphs that continue it) has at least 20 units has exactly one returned
\* provision with its normalized designator as section, the longest candidate
\* of that section; and the reference of every returned provision is 'art'
\* followed by the lower-cased section with each run of units other than 0-9
\* and a-z replaced by one '-'.
C10_OnePerLongEnoughSection ==
  ppc = "done" =>
    /\ \A i \in ArticleIndexes(paras) :
         Len(CandidateBody(paras, i)) >= 20 =>
           /\ Cardinality({k \in 1..Len(Output) :
                             Output[k].section = Designator(paras, i)}) = 1
           /\ \A k \in 1..Len(Output) :
                Output[k].section = Designator(paras, i) =>
                  /\ Len(Output[k].content) >= Len(CandidateBody(paras, i))
                  /\ \E j \in ArticleIndexes(paras) :
                       /\ Designator(paras, j) = Output[k].section
                       /\ CandidateBody(paras, j) = Output[k].content
    /\ \A k \in 1..Len(Output) :
         IsSlugOf(Output[k].provision_ref, ToLowerCase(Output[k].section))

\* C10 happens: a designator with dots, a dash and a capital letter is returned
\* next to a section two paragraphs opened, and an opening with a short body
C10_Witness ==
  /\ ppc = "done"
  /\ \E k \in 1..Len(Output) : Output[k].provision_ref = <<"a", "r", "t", "1", "-", "2", "-", "3", "a">>
  /\ \E i, j \in ArticleIndexes(paras) :
       /\ i # j
       /\ Designator(paras, i) = Designator(paras, j)
       /\ Len(CandidateBody(paras, i)) >= 20

\* the indexes of the paragraphs ps that match the heading pattern and have
\* at most 140 units
HeadingIndexes(ps) == {i \in 1..Len(ps) : ChapterTest(ps[i]) /\ Len(ps[i]) <= 140}

\* the text of the last heading before index i, NoChapter when there is none
LastHeadingBefore(ps, i) ==
  IF \A j \in HeadingIndexes(ps) : j >= i THEN NoChapter
  ELSE ps[CHOOSE j \in HeadingIndexes(ps) :
            j < i /\ \A l \in HeadingIndexes(ps) : l < i => l <= j]

\* the opening paragraphs whose candidate the returned provision k can be:
\* the map keeps the first of the longest candidates of a section
OpeningsOf(ps, k) ==
  {i \in 1..Len(ps) : /\ ArticleMatch(ps[i]).matched
                       /\ Designator(ps, i) = Output[k].section
                       /\ CandidateBody(ps, i) = Output[k].content}

\* C20: the chapter of every returned provision is the text of the last heading
\* paragraph (heading pattern, at most 140 units) before the paragraph that
\* opened it, and is unset when no heading comes before; no heading paragraph
\* opens a returned provision or is its body.
C20_ChapterIsLastHeading ==
  ppc = "done" =>
    /\ \A k \in 1..Len(Output) :
         /\ OpeningsOf(paras, k) # {}
         /\ Output[k].chapter = LastHeadingBefore(paras, MinOf(OpeningsOf(paras, k)))
    /\ \A i \in HeadingIndexes(paras) : \A k \in 1..Len(Output) :
         /\ i \notin OpeningsOf(paras, k)
         /\ Output[k].content # paras[i]
         /\ Output[k].section # paras[i]

\* C20 happens: an article after two different headings is returned with the
\* second heading as its chapter
C20_Witness ==
  /\ ppc = "done"
  /\ Len(paras) = 3
  /\ HeadingIndexes(paras) = {1, 2}
  /\ paras[1] # paras[2]
  /\ Len(Output) = 1
  /\ Output[1].chapter = paras[2]

\* the indexes of the paragraphs ps that open an article, headings apart
OpeningIndexes(ps) ==
  {i \in 1..Len(ps) : i \notin HeadingIndexes(ps) /\ ArticleMatch(ps[i]).matched}

\* the paragraphs of ps that make the body opened at index i: the opening and
\* every later paragraph before the next opening that is no heading
BodyIndexes(ps, i) ==
  {j \in i..Len(ps) : /\ j \notin HeadingIndexes(ps)
                      /\ \A k \in OpeningIndexes(ps) : k > i => j < k}

\* those paragraphs, separated by blank lines
BodyText(ps, i) == JoinBlocks(PickSeq(ps, BodyIndexes(ps, i)))

\* the openings of ps whose body is long enough to be pushed, in order
PushedOpenings(ps) ==
  PickSeq([i \in 1..Len(ps) |-> i],
          {i \in OpeningIndexes(ps) : Len(BodyText(ps, i)) >= 20})

\* the paragraphs the pass has gone through
Passed == SubSeq(paras, 1, Len(paras) - Len(rest))

\* C24: during the pass the blocks of the active provision are the last
\* opening paragraph gone through and the paragraphs after it that are no
\* headings, and there is no active provision before the first opening; when
\* the pass has ended the candidates are, in document order, the openings with
\* a long enough body, each body being its opening paragraph and the following
\* paragraphs up to the next opening, headings left out, separated by blank
\* lines.
C24_BodyIsRunOfParagraphs ==
  /\ ppc = "segment" =>
       IF OpeningIndexes(Passed) = {}
       THEN seg.active = NoActive /\ seg.provisions = <<>>
       ELSE seg.active.blocks =
              PickSeq(Passed, BodyIndexes(Passed, CHOOSE i \in OpeningIndexes(Passed) :
                                                    \A k \in OpeningIndexes(Passed) : k <= i))
  /\ ppc = "done" =>
       /\ Len(seg.provisions) = Len(PushedOpenings(paras))
       /\ \A k \in 1..Len(seg.provisions) :
            seg.provisions[k].content = BodyText(paras, PushedOpenings(paras)[k])

\* C24 happens: an article, a heading and a plain paragraph give one candidate
\* whose body is the article paragraph, a blank line and the plain paragraph
C24_Witness ==
  /\ ppc = "done"
  /\ Len(paras) = 3
  /\ HeadingIndexes(paras) = {2}
  /\ Len(seg.provisions) = 1
  /\ seg.provisions[1].content = paras[1] \o <<"LF", "LF">> \o paras[3]

\* the index of the closing div tag that brings the depth d back to 0 when
\* the tags of html are read from index j on, 0 when the text ends first
RECURSIVE MatchingClose(_, _, _)
MatchingClose(html, j, d) ==
  IF \A k \in j..Len(html) : html[k] \notin {"</div>", "<div>", ContainerOpen} THEN 0
  ELSE LET n == MinOf({k \in j..Len(html) : html[k] \in {"</div>", "<div>", ContainerOpen}})
       IN  IF html[n] = "</div>"
           THEN (IF d = 1 THEN n ELSE MatchingClose(html, n + 1, d - 1))
           ELSE MatchingClose(html, n + 1, d + 1)

\* the indexes of the opening tags of the container in html
ContainerIndexes(html) == {i \in 1..Len(html) : html[i] = ContainerOpen}

\* the HTML between the first opening tag of the container and the closing div
\* tag that matches it; nothing when there is no container or no such tag
IsolatedContent(html) ==
  IF ContainerIndexes(html) = {} THEN <<>>
  ELSE IF MatchingClose(html, MinOf(ContainerIndexes(html)) + 1, 1) = 0 THEN <<>>
  ELSE SubSeq(html, MinOf(ContainerIndexes(html)) + 1,
              MatchingClose(html, MinOf(ContainerIndexes(html)) + 1, 1) - 1)

\* the container of html is absent or its depth never returns to 0
NoContent(html) ==
  \/ ContainerIndexes(html) = {}
  \/ MatchingClose(html, MinOf(ContainerIndexes(html)) + 1, 1) = 0

\* C25: the paragraphs the pass goes through are those of the HTML between the
\* opening tag of the container and the closing div tag at which the depth
\* (1 after the opening tag, +1 per opening div, -1 per closing div) is back
\* to 0, nested div blocks included whole; when the container is absent or
\* never closed there is no paragraph and the returned act has no provision.
C25_ContentIsMatchingBlock ==
  /\ ppc \in {"segment", "done"} =>
       /\ ~extractParagraphs(IsolatedContent(doc)).threw
       /\ paras = extractParagraphs(IsolatedContent(doc)).val
  /\ (ppc \in {"segment", "done"} /\ NoContent(doc)) => paras = <<>>
  /\ (ppc = "done" /\ NoContent(doc)) => Output = <<>>

\* C25 happens: the container holds a nested div block and then a paragraph,
\* which is returned as a provision: the block ends at the second closing tag
C25_Witness ==
  /\ ppc = "done"
  /\ Len(doc) > 4
  /\ doc[1] = ContainerOpen
  /\ doc[2] = "<div>"
  /\ doc[3] = "</div>"
  /\ doc[4] = "<p>"
  /\ MatchingClose(doc, 2, 1) = Len(doc)
  /\ Len(paras) = 1
  /\ Len(Output) = 1

\* the issued date parseNormaHtml returned
IssuedDate == parsed.val.issued_date

\* the date parseDateFromMedioPublicacion reads on the page of a choice
DateOfChoice(c) == parseDateFromMedioPublicacion(DateDoc(c))

\* the choice with the other phrase order
OtherOrder(c) ==
  [c EXCEPT !.order = IF c.order = "monthFirst" THEN "dayFirst" ELSE "monthFirst"]

\* YYYY-MM-DD of a choice whose month is in the table
IsoDate(c) ==
  c.year \o <<"-">> \o DateMonths[c.month].number \o <<"-">>
    \o (IF Len(c.day) = 1 THEN <<"0">> \o c.day ELSE c.day)

\* the sentence of the choice is one the patterns are written for: a day of
\* one or two digits and no full stop before the date
WellFormed(c) == Len(c.day) <= 2 /\ \A k \in 1..Len(c.gap) : c.gap[k] # "."

\* C21: a page with a publication sentence never makes the parser throw; its
\* date is the date of the page with the other phrase order; it is
\* YYYY-MM-DD with the number of the month table and the day padded to two
\* digits when the month is in the table and the sentence is well formed, and
\* unset when the month is not in the table.
C21_SameDateBothOrders ==
  \A c \in DateChoices :
    doc = DateDoc(c) =>
      /\ ppc # "threw"
      /\ ppc = "done" =>
           /\ IssuedDate = DateOfChoice(OtherOrder(c)).val
           /\ (DateMonths[c.month].number # <<>> /\ WellFormed(c)) => IssuedDate = IsoDate(c)
           /\ DateMonths[c.month].number = <<>> => IssuedDate = Undefined

\* the definitions parseNormaHtml returned
Definitions == parsed.val.definitions

C12_NoContainerEmptyRecord ==
  extractClassBlock(doc).isNull =>
    /\ ppc # "threw"
    /\ ~parsed.threw
    /\ ppc = "done" => Output = <<>> /\ Definitions = <<>>

InitParser ==
  /\ \/ \E shape \in DocShapes : \E ps \in ParaChoices :
          /\ shape = "bare" => Len(ps) <= MaxBareParas
          /\ doc = MakeDoc(shape, ps)
     \/ \E shape \in DocShapes : \E ps \in DefinitionChoices :
          doc = IF shape = "container"
                THEN <<ContainerOpen>> \o WrapDefinitionParagraphs(ps) \o <<"</div>">>
                ELSE WrapDefinitionParagraphs(ps)
     \/ doc = ManyDefinitionsDoc
     \/ \E c \in DateChoices : doc = DateDoc(c)
     \/ \E ps \in DivChoices : doc = DivDoc(ps)
     \/ \E ps \in HeadingChoices :
          doc = <<ContainerOpen>> \o WrapHeadingParagraphs(ps) \o <<"</div>">>
  /\ ppc = "start"
  /\ paras = <<>>
  /\ rest = <<>>
  /\ seg = SegInit
  /\ parsed = Return(<<>>)
  /\ definitions = <<>>
  /\ dynamic = DynamicIdle
  /\ RunIdle

NextParser ==
  \/ ParseThrow
  \/ ParseStart
  \/ SegHeading
  \/ SegArticle
  \/ SegOther
  \/ ParseDone

SpecParser == InitParser /\ [][NextParser]_vars

(***************************************************************************)
(* buildDynamicTargetLaws, one action per turn of entries.forEach          *)
(* (specification SpecCatalog).                                            *)
(***************************************************************************)
\* the entry of the turn; its position idx is Len(dynamic.laws)
NextEntry == dynamic.entries[Len(dynamic.laws) + 1]

\* lines 172-183: the identifier and the file name of the entry are pushed
BuildEntry(id) ==
  dynamic' = [dynamic EXCEPT
                !.usedIds = @ \cup {id},
                !.laws = Append(@, [id |-> id,
                                    fileName |-> dynamicFileName(Len(dynamic.laws), NextEntry),
                                    portalId |-> NextEntry.portalId])]

\* lines 158-161 of buildDynamicLawId: the base is free
BuildBase ==
  /\ Len(dynamic.laws) < Len(dynamic.entries)
  /\ dynamicBase(NextEntry) \notin dynamic.usedIds
  /\ BuildEntry(dynamicLawId(NextEntry, dynamic.usedIds))
  /\ UNCHANGED parserVars
  /\ UNCHANGED runVars

\* lines 163-165 of buildDynamicLawId: the base is used
BuildWithPortal ==
  /\ Len(dynamic.laws) < Len(dynamic.entries)
  /\ dynamicBase(NextEntry) \in dynamic.usedIds
  /\ BuildEntry(dynamicLawId(NextEntry, dynamic.usedIds))
  /\ UNCHANGED parserVars
  /\ UNCHANGED runVars

(***************************************************************************)
(* Properties of the dynamic catalog (specification SpecCatalog).          *)
(***************************************************************************)
\* C16: the identifiers buildDynamicTargetLaws assigns to discovered entries
\* with pairwise distinct portal ids are pairwise distinct: the first entry
\* that derives a base gets the base, every later entry that derives it gets
\* the base followed by '-i' and its portal id.
C16_DistinctDynamicIds ==
  /\ \A i, j \in 1..Len(dynamic.laws) :
       i # j => dynamic.laws[i].id # dynamic.laws[j].id
  /\ \A k \in 1..Len(dynamic.laws) :
       dynamic.laws[k].id =
         IF \A j \in 1..(k - 1) :
              dynamicBase(dynamic.entries[j]) # dynamicBase(dynamic.entries[k])
         THEN dynamicBase(dynamic.entries[k])
         ELSE dynamicBase(dynamic.entries[k]) \o <<"-", "i">>
                \o DigitsOf(dynamic.entries[k].portalId)

\* C16 happens: three entries derive the same base from titles that differ,
\* and the second and the third get their portal ids appended
C16_Witness ==
  /\ Len(dynamic.laws) = 3
  /\ dynamic.entries[1].title # dynamic.entries[2].title
  /\ dynamic.laws[1].id = <<"c", "o", "-", "l", "e", "y", "-", "1", "2", "-", "3", "-",
                            "2", "0", "1", "0">>
  /\ dynamic.laws[2].id = dynamic.laws[1].id \o <<"-", "i", "5">>
  /\ dynamic.laws[3].id = dynamic.laws[1].id \o <<"-", "i", "3", "9", "6", "6", "8">>

\* C17: no two entries write the same path: the record file names of the
\* curated catalog and its snapshot names are pairwise distinct, and so are the
\* record file names and the snapshot names (id + '.html') of the entries of a
\* discovered catalog.
C17_DistinctPaths ==
  /\ \A i, j \in 1..Len(TARGET_LAWS) :
       i # j => /\ TARGET_LAWS[i].fileName # TARGET_LAWS[j].fileName
                /\ SourceFile(TARGET_LAWS[i]) # SourceFile(TARGET_LAWS[j])
  /\ \A i, j \in 1..Len(dynamic.laws) :
       i # j => /\ dynamic.laws[i].fileName # dynamic.laws[j].fileName
                /\ SnapshotName(dynamic.laws[i].id) # SnapshotName(dynamic.laws[j].id)

\* C17 happens: two discovered entries have the same title, hence the same
\* slug in their file names and the same base
C17_Witness ==
  /\ Len(dynamic.laws) >= 2
  /\ dynamic.entries[1].title = dynamic.entries[2].title
  /\ dynamic.laws[1].fileName # dynamic.laws[2].fileName
  /\ SubSeq(dynamic.laws[1].fileName, 5, Len(dynamic.laws[1].fileName))
       = SubSeq(dynamic.laws[2].fileName, 5, Len(dynamic.laws[2].fileName))

InitCatalog ==
  /\ \E e \in EntryChoices : dynamic = [entries |-> e, usedIds |-> {}, laws |-> <<>>]
  /\ doc = <<>>
  /\ ppc = "idle"
  /\ paras = <<>>
  /\ rest = <<>>
  /\ seg = SegInit
  /\ parsed = Return(<<>>)
  /\ definitions = <<>>
  /\ RunIdle

NextCatalog == BuildBase \/ BuildWithPortal

SpecCatalog == InitCatalog /\ [][NextCatalog]_vars


(***************************************************************************)
(* buildLawList over the whole catalogs, for command lines with --start,   *)
(* --limit and --full-laws (specification SpecList).                       *)
(***************************************************************************)
StartWords ==
  {<<>>, <<"--start">>} \cup {<<"--start", a>> : a \in {"-1", "0", "1", "2", "3", "9", "10", "11"}}

LimitWords == {<<>>} \cup {<<"--limit", a>> : a \in {"0", "1", "2", "3", "4", "10", "11"}}

ModeWords == {<<>>, <<"--full-laws">>}

\* the command lines of the specification
ArgvChoices == {m \o l \o st : m \in ModeWords, l \in LimitWords, st \in StartWords}

\* buildLawList, lines 216-220: the curated list
ListCurated ==
  /\ pc = "main"
  /\ ~args.fullLaws
  /\ laws' = SliceLaws(TARGET_LAWS, args.start, args.limit)
  /\ pc' = "listed"
  /\ UNCHANGED <<args, env, pending, round, idx, roundResults, allResults, result, results,
                 exitCode, history, thrown, faults>>
  /\ UNCHANGED fetchVars
  /\ UNCHANGED dirVars
  /\ UNCHANGED parserVars
  /\ UNCHANGED dynamic

\* buildLawList, lines 222-231, with the search page fetchFullLawIndex got
ListDiscovered ==
  /\ pc = "main"
  /\ args.fullLaws
  /\ \E body \in IndexPages :
       /\ sourceDir' = (IndexHtmlFile :> body) @@ (IndexJsonFile :> IndexJson(body)) @@ sourceDir
       /\ laws' = SliceLaws(buildDynamicTargetLaws(extractLawIndexFromSearchHtml(body)),
                            args.start, args.limit)
  /\ pc' = "listed"
  /\ UNCHANGED <<args, env, pending, round, idx, roundResults, allResults, result, results,
                 exitCode, history, thrown, faults, seedDir>>
  /\ UNCHANGED fetchVars
  /\ UNCHANGED parserVars
  /\ UNCHANGED dynamic

(***************************************************************************)
(* Properties of the list (specification SpecList).                        *)
(***************************************************************************)
\* the catalog the list of the state was cut from
FullCatalog ==
  IF args.fullLaws
  THEN buildDynamicTargetLaws(extractLawIndexFromSearchHtml(sourceDir[IndexHtmlFile]))
  ELSE TARGET_LAWS

\* the number of entries of a catalog of n entries from the offset on, cut to
\* the limit when one is given
SliceLength(n, offset, limit) ==
  IF offset >= n THEN 0
  ELSE IF limit # NoLimit /\ limit[1] < n - offset THEN limit[1]
  ELSE n - offset

\* C22: in both modes the list is the catalog's entries from the start offset
\* on, in catalog order, at most `limit` of them when a limit is given and all
\* of them otherwise.
C22_ListIsSlice ==
  pc = "listed" =>
    /\ Len(laws) = SliceLength(Len(FullCatalog), args.start, args.limit)
    /\ \A k \in 1..Len(laws) : laws[k] = FullCatalog[args.start + k]

InitList ==
  /\ ParserIdle
  /\ dynamic = DynamicIdle
  /\ \E argv \in ArgvChoices : args = parseArgs(argv)
  /\ env = ""
  /\ pc = "main"
  /\ laws = <<>>
  /\ pending = <<>>
  /\ round = 0
  /\ idx = 0
  /\ roundResults = <<>>
  /\ allResults = EmptyMap
  /\ result = NoResult
  /\ results = <<>>
  /\ exitCode = 0
  /\ caller = ""
  /\ attempt = 0
  /\ now = ProcessStart
  /\ lastRequestTime = 0
  /\ insecureTlsNoticeShown = FALSE
  /\ tlsRejectOff = FALSE
  /\ warnings = 0
  /\ sourceDir = EmptyMap
  /\ seedDir = EmptyMap
  /\ history = <<>>
  /\ thrown = ""
  /\ reqLog = NoRequest
  /\ responses = <<>>
  /\ backoffs = <<>>
  /\ slow = 0
  /\ faults = 0

NextList == ListCurated \/ ListDiscovered

SpecList == InitList /\ [][NextList]_vars

====
